---- MODULE Spec2Model ----
(***************************************************************************)
(* quickuuid: the UUID generation pipeline (uuid-generator, format-utils,  *)
(* validation-utils), the libraries around it (storage-utils,              *)
(* clipboard-utils, the PerformanceMonitor) and the useUUIDGenerator hook  *)
(* that coordinates them.                                                  *)
(*                                                                         *)
(* Representation                                                          *)
(*  - A JavaScript string is a sequence of one-character strings.          *)
(*  - A JavaScript number that the code treats as a count is kept in       *)
(*    half units, so that non-integers exist in the model: Num(5) is 5,    *)
(*    Half(1) is 1.5.  Array lengths and loop indexes are plain integers.  *)
(*  - The random source is external.  Draw number k of the source always   *)
(*    yields the same 16 bytes, and every draw is used once, so two        *)
(*    identifiers are equal only if they come from the same draw.          *)
(*  - One action is one task of the event loop: the callback, the promise  *)
(*    continuations it makes runnable, and the render (with its effects)   *)
(*    that React performs for the state it has set.                        *)
(***************************************************************************)
EXTENDS Integers, Sequences, FiniteSets, TLC

(***************************************************************************)
(* Numbers                                                                 *)
(***************************************************************************)
Num(n) == 2 * n

Half(n) == 2 * n + 1

IsInteger(x) == x % 2 = 0

\* the number of iterations of  for (let i = 0; i < x; i++)
LoopCount(x) == IF x <= 0 THEN 0 ELSE (x + 1) \div 2

Min(a, b) == IF a < b THEN a ELSE b

(***************************************************************************)
(* Strings                                                                 *)
(***************************************************************************)
HexChars == <<"0", "1", "2", "3", "4", "5", "6", "7",
              "8", "9", "a", "b", "c", "d", "e", "f">>

\* byte.toString(16).padStart(2, '0')
ByteToHex(byte) == <<HexChars[(byte \div 16) + 1], HexChars[(byte % 16) + 1]>>

\* the concatenation of ss[lo..hi] with sep between the elements
RECURSIVE JoinRange(_, _, _, _)
JoinRange(ss, sep, lo, hi) ==
    IF lo > hi THEN <<>>
    ELSE IF lo = hi THEN ss[lo]
    ELSE LET mid == (lo + hi) \div 2
         IN  JoinRange(ss, sep, lo, mid) \o sep \o JoinRange(ss, sep, mid + 1, hi)

\* ss.join(sep)
Join(ss, sep) == JoinRange(ss, sep, 1, Len(ss))

Flatten(ss) == Join(ss, <<>>)

\* s.slice(from, to) on strings and typed arrays, 0-based, clamped
Slice(s, from, to) == SubSeq(s, Min(from, Len(s)) + 1, Min(to, Len(s)))

(***************************************************************************)
(* The random source                                                       *)
(***************************************************************************)
RandomPattern == <<161, 178, 195, 212, 229, 246, 255, 7,
                   255, 24, 41, 58, 75, 92>>

\* byte j (0-based) of draw k
RandomByte(k, j) ==
    IF j < 14 THEN RandomPattern[j + 1]
    ELSE IF j = 14 THEN (k \div 256) % 256
    ELSE k % 256

\* crypto.getRandomValues(new Uint8Array(n)), first byte taken from draw k
GetRandomValues(n, k) == [j \in 1..n |-> RandomByte(k + ((j - 1) \div 16), (j - 1) % 16)]

\* bytes whose variant byte keeps its top two bits
SetVersionBits_KeepsVariant(bytes) ==
    [j \in 1..Len(bytes) |->
        IF j = 7 THEN (bytes[j] % 16) + 64
        ELSE IF j = 9 THEN (bytes[j] % 64) + (bytes[j] \div 128) * 128
        ELSE bytes[j]]

\* the bytes with the version and variant bits set; a write past the end of
\* a typed array is ignored
SetVersionBits(bytes) ==
    [j \in 1..Len(bytes) |->
        IF j = 7 THEN (bytes[j] % 16) + 64
        ELSE IF j = 9 THEN (bytes[j] % 64) + 128
        ELSE bytes[j]]

BytesToUUID(bytes) ==
    LET hex == Flatten([j \in 1..Len(bytes) |-> ByteToHex(bytes[j])])
    IN  Join(<<Slice(hex, 0, 8), Slice(hex, 8, 12), Slice(hex, 12, 16),
               Slice(hex, 16, 20), Slice(hex, 20, 32)>>, <<"-">>)

\* the loop of generateBatch over the buffer allBytes that
\* crypto.getRandomValues has filled: the bytes each identifier is encoded
\* from, and the identifiers
BatchFromBytes(allBytes, count) ==
    LET chunk(i) == SetVersionBits(Slice(allBytes, (i - 1) * 16, (i - 1) * 16 + 16))
    IN  [bytes |-> [i \in 1..LoopCount(count) |-> chunk(i)],
         uuids |-> [i \in 1..LoopCount(count) |-> BytesToUUID(chunk(i))]]

\* Math.random() * 16 | 0, for character position pos of draw k
MathRandomNibble(k, pos) == RandomByte(k, pos % 16) % 16

MathRandomTemplate ==
    <<"x", "x", "x", "x", "x", "x", "x", "x", "-", "x", "x", "x", "x", "-",
      "4", "x", "x", "x", "-", "y", "x", "x", "x", "-",
      "x", "x", "x", "x", "x", "x", "x", "x", "x", "x", "x", "x">>

\* 'xxxxxxxx-xxxx-4xxx-yxxx-xxxxxxxxxxxx'.replace(/[xy]/g, ...)
MathRandomUUID(k) ==
    [p \in 1..Len(MathRandomTemplate) |->
        LET c == MathRandomTemplate[p]
            r == MathRandomNibble(k, p - 1)
        IN  IF c = "x" THEN HexChars[r + 1]
            ELSE IF c = "y" THEN HexChars[((r % 4) + 8) + 1]
            ELSE c]

(***************************************************************************)
(* uuid-generator                                                          *)
(*                                                                         *)
(* An identifier is kept as the way it was made: the source of its random  *)
(* bits, the draw, and the number of bytes its slice of the byte buffer    *)
(* holds.  UUIDText gives the string the code builds from them.            *)
(***************************************************************************)
Crypto == [randomUUID : BOOLEAN, getRandomValues : BOOLEAN]

\* an availability test that always passes
isSupported_Always(crypto) == TRUE

isSupported(crypto) == crypto.randomUUID \/ crypto.getRandomValues

Identifier(source, k, n) == [source |-> source, draw |-> k, bytes |-> n]

UUIDText(id) ==
    IF id.source = "Math.random" THEN MathRandomUUID(id.draw)
    ELSE BytesToUUID(SetVersionBits(GetRandomValues(id.bytes, id.draw)))

UUIDTexts(ids) == [i \in 1..Len(ids) |-> UUIDText(ids[i])]

generateV4UUID(crypto, k) ==
    IF crypto.getRandomValues
    THEN Identifier("getRandomValues", k, 16)
    ELSE Identifier("Math.random", k, 16)

getFallbackGenerator(crypto, count, k) ==
    [i \in 1..LoopCount(count) |-> generateV4UUID(crypto, k + i - 1)]

Rejected(message) == [status |-> "rejected", error |-> message]

Resolved(uuids) == [status |-> "resolved", uuids |-> uuids]

ErrCount == "Count must be between 1 and 1000"

ErrCrypto == "Crypto API unavailable"

ErrVersion == "UUID version not supported yet"

\* a generateBatch without the version test
generateBatch_AnyVersion(count, version, crypto, k) ==
    IF crypto.randomUUID
    THEN Resolved([i \in 1..LoopCount(count) |-> Identifier("randomUUID", k + i - 1, 16)])
    ELSE IF crypto.getRandomValues
    THEN LET totalBytes == count * 8
         IN  Resolved([i \in 1..LoopCount(count) |->
                 Identifier("getRandomValues", k + i - 1,
                            Min(16, totalBytes - (i - 1) * 16))])
    ELSE Resolved([i \in 1..LoopCount(count) |-> generateV4UUID(crypto, k + i - 1)])

generateBatch(count, version, crypto, k) ==
    IF version # "v4" THEN Rejected(ErrVersion)
    ELSE IF crypto.randomUUID
    THEN Resolved([i \in 1..LoopCount(count) |-> Identifier("randomUUID", k + i - 1, 16)])
    ELSE IF crypto.getRandomValues
    THEN LET totalBytes == count * 8
         IN  Resolved([i \in 1..LoopCount(count) |->
                 Identifier("getRandomValues", k + i - 1,
                            Min(16, totalBytes - (i - 1) * 16))])
    ELSE Resolved([i \in 1..LoopCount(count) |-> generateV4UUID(crypto, k + i - 1)])

batchSize == 50

\* the local variables of generateUUIDBatch; chunks and yields record the
\* sizes passed to generateBatch and the number of setTimeout(resolve, 0)
NewFrame(config) ==
    [config |-> config,
     batches |-> (config.count + 2 * batchSize - 1) \div (2 * batchSize),
     batchIndex |-> 0,
     uuids |-> <<>>,
     chunks |-> <<>>,
     yields |-> 0]

\* an iteration whose endIndex is not clamped to config.count
BatchIteration_FullChunks(f, crypto, k) ==
    LET batchUUIDs == generateBatch(Num(batchSize), f.config.version, crypto, k)
    IN  IF batchUUIDs.status = "rejected"
        THEN [status |-> "rejected", error |-> batchUUIDs.error, frame |-> f]
        ELSE LET g == [f EXCEPT !.uuids = @ \o batchUUIDs.uuids,
                                !.chunks = Append(@, Len(batchUUIDs.uuids)),
                                !.batchIndex = @ + 1]
             IN  IF f.batchIndex < f.batches - 1
                 THEN [status |-> "pending", error |-> "",
                       frame |-> [g EXCEPT !.yields = @ + 1]]
                 ELSE [status |-> "resolved", error |-> "", frame |-> g]

\* one iteration of the loop of generateUUIDBatch, up to its await
BatchIteration(f, crypto, k) ==
    LET startIndex == f.batchIndex * batchSize
        endIndex == Min(Num(startIndex + batchSize), f.config.count)
        currentBatchSize == endIndex - Num(startIndex)
        batchUUIDs == generateBatch(currentBatchSize, f.config.version, crypto, k)
    IN  IF batchUUIDs.status = "rejected"
        THEN [status |-> "rejected", error |-> batchUUIDs.error, frame |-> f]
        ELSE LET g == [f EXCEPT !.uuids = @ \o batchUUIDs.uuids,
                                !.chunks = Append(@, Len(batchUUIDs.uuids)),
                                !.batchIndex = @ + 1]
             IN  IF f.batchIndex < f.batches - 1
                 THEN [status |-> "pending", error |-> "",
                       frame |-> [g EXCEPT !.yields = @ + 1]]
                 ELSE [status |-> "resolved", error |-> "", frame |-> g]

\* generateUUIDs up to its first await: the whole call on the direct path,
\* the first chunk on the chunked path
generateUUIDs(config, crypto, k) ==
    LET f == NewFrame(config)
    IN  IF config.count < Num(1) \/ config.count > Num(1000)
        THEN [status |-> "rejected", error |-> ErrCount, frame |-> f]
        ELSE IF ~isSupported(crypto)
        THEN [status |-> "rejected", error |-> ErrCrypto, frame |-> f]
        ELSE IF config.count > Num(100)
        THEN BatchIteration(f, crypto, k)
        ELSE IF LoopCount(config.count) > 0 /\ config.version # "v4"
        THEN [status |-> "rejected", error |-> ErrVersion, frame |-> f]
        ELSE [status |-> "resolved", error |-> "",
              frame |-> [f EXCEPT !.uuids =
                  [i \in 1..LoopCount(config.count) |->
                      IF crypto.randomUUID THEN Identifier("randomUUID", k + i - 1, 16)
                      ELSE generateV4UUID(crypto, k + i - 1)]]]

\* the draws a step of the generator has used
Drawn(before, after) == Len(after.frame.uuids) - Len(before.uuids)

(***************************************************************************)
(* format-utils                                                            *)
(***************************************************************************)
LowerLetters == <<"a", "b", "c", "d", "e", "f">>

UpperLetters == <<"A", "B", "C", "D", "E", "F">>

\* the identifiers of the model hold no letter outside a..f
CharToUpper(c) ==
    IF \E i \in 1..6 : LowerLetters[i] = c
    THEN UpperLetters[CHOOSE i \in 1..6 : LowerLetters[i] = c]
    ELSE c

CharToLower(c) ==
    IF \E i \in 1..6 : UpperLetters[i] = c
    THEN LowerLetters[CHOOSE i \in 1..6 : UpperLetters[i] = c]
    ELSE c

toUpperCase(s) == [i \in 1..Len(s) |-> CharToUpper(s[i])]

toLowerCase(s) == [i \in 1..Len(s) |-> CharToLower(s[i])]

\* s.replace(/-/g, '')
RemoveHyphens(s) == SelectSeq(s, LAMBDA c : c # "-")

FormatKeys == {"includeHyphens", "includeBraces", "includeQuotes",
               "upperCase", "separateWithCommas"}

\* the options object the hook builds from a configuration
FormatOptions(config) == [k \in FormatKeys |-> config[k]]

\* a formatter that adds the braces before the quotes
formatSingleUUID_QuotesOutermost(uuid, options) ==
    LET f1 == IF ~options.includeHyphens THEN RemoveHyphens(uuid) ELSE uuid
        f2 == IF options.upperCase THEN toUpperCase(f1) ELSE toLowerCase(f1)
        f3 == IF options.includeBraces THEN <<"{">> \o f2 \o <<"}">> ELSE f2
        f4 == IF options.includeQuotes THEN <<"\"">> \o f3 \o <<"\"">> ELSE f3
    IN  f4

formatSingleUUID(uuid, options) ==
    LET f1 == IF ~options.includeHyphens THEN RemoveHyphens(uuid) ELSE uuid
        f2 == IF options.upperCase THEN toUpperCase(f1) ELSE toLowerCase(f1)
        f3 == IF options.includeQuotes THEN <<"\"">> \o f2 \o <<"\"">> ELSE f2
        f4 == IF options.includeBraces THEN <<"{">> \o f3 \o <<"}">> ELSE f3
    IN  f4

formatUUIDs(uuids, options) ==
    IF Len(uuids) = 0 THEN <<>>
    ELSE LET formattedUUIDs == [i \in 1..Len(uuids) |-> formatSingleUUID(uuids[i], options)]
         IN  IF options.separateWithCommas /\ Len(uuids) > 1
             THEN Join(formattedUUIDs, <<",">>)
             ELSE Join(formattedUUIDs, <<"\n">>)

\* A formatted output is kept as the call of formatUUIDs that made it;
\* FormattedText gives its characters.
FormatCall(uuids, options) == [uuids |-> uuids, options |-> options]

FormattedText(output) == formatUUIDs(UUIDTexts(output.uuids), output.options)

(***************************************************************************)
(* validation-utils                                                        *)
(***************************************************************************)
None == <<>>

Some(x) == <<x>>

\* a count validation without the Number.isInteger test
validateCount_AnyNumber(count) ==
    IF count < Num(1) THEN Some([field |-> "count", code |-> "COUNT_TOO_LOW"])
    ELSE IF count > Num(1000) THEN Some([field |-> "count", code |-> "COUNT_TOO_HIGH"])
    ELSE None

\* every count of the model is a number, so the typeof test passes
validateCount(count) ==
    IF ~IsInteger(count) THEN Some([field |-> "count", code |-> "INVALID_INTEGER"])
    ELSE IF count < Num(1) THEN Some([field |-> "count", code |-> "COUNT_TOO_LOW"])
    ELSE IF count > Num(1000) THEN Some([field |-> "count", code |-> "COUNT_TOO_HIGH"])
    ELSE None

validateVersion(version) ==
    IF version \notin {"v1", "v4"}
    THEN Some([field |-> "version", code |-> "INVALID_VERSION"])
    ELSE None

validateTheme(theme) ==
    IF theme \notin {"light", "dark", "system"}
    THEN Some([field |-> "theme", code |-> "INVALID_THEME"])
    ELSE None

validateConfig(config) ==
    LET errors ==
            (IF "count" \in DOMAIN config THEN validateCount(config.count) ELSE None)
         \o (IF "version" \in DOMAIN config THEN validateVersion(config.version) ELSE None)
         \o (IF "theme" \in DOMAIN config THEN validateTheme(config.theme) ELSE None)
    IN  [isValid |-> Len(errors) = 0, errors |-> errors]

getValidationMessage(field, value) ==
    IF field = "count"
    THEN LET countError == validateCount(value)
         IN  IF countError = None THEN None
             ELSE IF countError[1].code = "INVALID_INTEGER" THEN Some("Please enter a valid number")
             ELSE IF countError[1].code = "COUNT_TOO_LOW" THEN Some("Count must be at least 1")
             ELSE Some("Count must be at most 1000")
    ELSE IF field = "version"
    THEN IF validateVersion(value) # None THEN Some("Please select a valid UUID version") ELSE None
    ELSE IF field = "theme"
    THEN IF validateTheme(value) # None THEN Some("Please select a valid theme option") ELSE None
    ELSE None

(***************************************************************************)
(* types and storage-utils                                                 *)
(***************************************************************************)
defaultConfig ==
    [count |-> Num(1), version |-> "v4",
     includeHyphens |-> TRUE, includeBraces |-> FALSE, includeQuotes |-> FALSE,
     upperCase |-> FALSE, separateWithCommas |-> FALSE,
     theme |-> "system", autoCopy |-> FALSE]

\* { ...current, ...updates }
Merge(current, updates) ==
    [k \in DOMAIN current \cup DOMAIN updates |->
        IF k \in DOMAIN updates THEN updates[k] ELSE current[k]]

Restrict(f, keys) == [k \in keys |-> f[k]]

\* a filter that keeps every field
filterNonDefaultValues_All(config) == config

filterNonDefaultValues(config) ==
    Restrict(config, {k \in DOMAIN config : defaultConfig[k] # config[k]})

\* A JavaScript value as JSON carries it: the value and its typeof
JNumber(n) == [type |-> "number", value |-> n]

JString(str) == [type |-> "string", text |-> str]

JBoolean(b) == [type |-> "boolean", flag |-> b]

JObject(fields) == [type |-> "object", fields |-> fields]

JNull == [type |-> "null"]

\* the JavaScript value of a number, a string or a boolean
ValueOf(json) ==
    IF json.type = "number" THEN json.value
    ELSE IF json.type = "string" THEN json.text
    ELSE json.flag

BooleanKeys == FormatKeys \cup {"autoCopy"}

\* the fields of a configuration as JSON.stringify writes them, each with
\* the type UUIDGeneratorConfig gives it
ConfigToJSON(config) ==
    [k \in DOMAIN config |->
        IF k = "count" THEN JNumber(config[k])
        ELSE IF k \in BooleanKeys THEN JBoolean(config[k])
        ELSE JString(config[k])]

\* A string in localStorage is the JSON text of a value, or a text that
\* JSON.parse rejects (the empty string is one)
JSONstringify(value) == [kind |-> "json", value |-> value]

PlainText(chars) == [kind |-> "text", chars |-> chars]

\* config holds the fields of the parsed object
validateAndMigrate(config) ==
    LET valid ==
            {k \in DOMAIN config :
                \/ /\ k = "count"
                   /\ config[k].type = "number"
                   /\ config[k].value >= Num(1)
                   /\ config[k].value <= Num(1000)
                \/ k = "version" /\ config[k].type = "string" /\ config[k].text \in {"v1", "v4"}
                \/ k \in BooleanKeys /\ config[k].type = "boolean"
                \/ /\ k = "theme"
                   /\ config[k].type = "string"
                   /\ config[k].text \in {"light", "dark", "system"}}
    IN  [k \in valid |-> ValueOf(config[k])]

SCHEMA_VERSION == "1.0.0"

\* localStorage: missing, one whose setItem always throws, one whose quota
\* leaves room for the test key only, and one that works
LocalStorages == {"undefined", "throws", "full", "works"}

isStorageAvailable(ls) == ls \in {"full", "works"}

\* the value returned and localStorage['uuid-generator-preferences'] after
\* the call; now is new Date().toISOString()
savePreferences(ls, stored, config, now) ==
    IF ~isStorageAvailable(ls) THEN [returned |-> FALSE, stored |-> stored]
    ELSE LET nonDefaultConfig == filterNonDefaultValues(config)
             storedPreferences ==
                 JObject([version |-> JString(SCHEMA_VERSION),
                          config |-> JObject(ConfigToJSON(nonDefaultConfig)),
                          lastUsed |-> JString(now)])
         IN  IF ls = "full" THEN [returned |-> FALSE, stored |-> stored]
             ELSE [returned |-> TRUE, stored |-> Some(JSONstringify(storedPreferences))]

\* the properties of a parsed value; a value that is no object has none
Fields(json) == IF json.type = "object" THEN json.fields ELSE <<>>

\* reading a property of null throws, and the catch returns {}
loadPreferences(ls, stored) ==
    IF ~isStorageAvailable(ls) THEN <<>>
    ELSE IF stored = None THEN <<>>
    ELSE IF stored[1].kind # "json" THEN <<>>
    ELSE LET preferences == stored[1].value
         IN  IF preferences.type = "null" THEN <<>>
             ELSE IF "config" \in DOMAIN Fields(preferences)
             THEN validateAndMigrate(Fields(Fields(preferences).config))
             ELSE validateAndMigrate(<<>>)

(***************************************************************************)
(* clipboard-utils                                                         *)
(***************************************************************************)
\* what the page offers to a copy: the globals that exist, the origin, how
\* navigator.clipboard.writeText settles and what document.execCommand does
ClipEnvs ==
    [navigator : BOOLEAN, clipboard : BOOLEAN, writeText : BOOLEAN,
     window : BOOLEAN, isSecureContext : BOOLEAN, https : BOOLEAN,
     localhost : BOOLEAN, write : {"resolves", "rejects"},
     exec : {"true", "false", "throws"}]

\* the && chain stops at its first false operand; reading window.isSecureContext
\* without a window throws, and the catch returns false
isClipboardAvailable(env) ==
    IF ~env.navigator THEN FALSE
    ELSE IF ~env.clipboard THEN FALSE
    ELSE IF ~env.writeText THEN FALSE
    ELSE IF ~env.window THEN FALSE
    ELSE env.isSecureContext \/ env.https \/ env.localhost

\* what one call did: the value it returned, the tiers it tried in order and
\* the text that reached the system clipboard
CopyOutcome(returned, tiers, written) ==
    [returned |-> returned, tiers |-> tiers, written |-> written]

\* a fallbackCopy that reports success whatever execCommand returned
fallbackCopy_AlwaysTrue(text, env) == CopyOutcome(TRUE, <<"fallback">>, Some(text))

\* document.execCommand('copy') on a temporary textarea holding text
fallbackCopy(text, env) ==
    IF env.exec = "throws" THEN CopyOutcome(FALSE, <<"fallback">>, None)
    ELSE IF env.exec = "true" THEN CopyOutcome(TRUE, <<"fallback">>, Some(text))
    ELSE CopyOutcome(FALSE, <<"fallback">>, None)

\* a copy that gives up when the native write fails
copyToClipboard_NoFallback(text, env) ==
    IF text = None THEN CopyOutcome(FALSE, <<>>, None)
    ELSE LET textStr == text[1]
         IN  IF isClipboardAvailable(env)
             THEN IF env.write = "resolves"
                  THEN CopyOutcome(TRUE, <<"native">>, Some(textStr))
                  ELSE CopyOutcome(FALSE, <<"native">>, None)
             ELSE fallbackCopy(textStr, env)

\* text is None for null and undefined, and Some(t) for the string t
copyToClipboard(text, env) ==
    IF text = None THEN CopyOutcome(FALSE, <<>>, None)
    ELSE LET textStr == text[1]
         IN  IF isClipboardAvailable(env)
             THEN IF env.write = "resolves"
                  THEN CopyOutcome(TRUE, <<"native">>, Some(textStr))
                  ELSE LET f == fallbackCopy(textStr, env)
                       IN  CopyOutcome(f.returned, <<"native">> \o f.tiers, f.written)
             ELSE fallbackCopy(textStr, env)

\* A text given to a copy is kept as the value it was computed from; TextOf
\* gives its characters.
OutputText(output) == [kind |-> "formattedOutput", of |-> output]

UUIDArgument(uuid) == [kind |-> "uuid", of |-> uuid]

Literal(chars) == [kind |-> "literal", of |-> chars]

TextOf(t) ==
    IF t.kind = "formattedOutput" THEN FormattedText(t.of)
    ELSE IF t.kind = "uuid" THEN UUIDText(t.of)
    ELSE t.of

EmptyClipboard == [handed |-> None, written |-> None]

\* a page served from a secure origin whose clipboard accepts the write
SecureClipboard ==
    [navigator |-> TRUE, clipboard |-> TRUE, writeText |-> TRUE, window |-> TRUE,
     isSecureContext |-> TRUE, https |-> TRUE, localhost |-> FALSE,
     write |-> "resolves", exec |-> "true"]

(***************************************************************************)
(* validation-utils: PerformanceMonitor                                    *)
(***************************************************************************)
uuidGenerationWarning == 50

uuidGenerationError == 100

formattingWarning == 20

formattingError == 40

totalWarning == 80

totalError == 150

DEFAULT_THRESHOLDS ==
    [uuidGeneration |-> [warning |-> uuidGenerationWarning, error |-> uuidGenerationError],
     formatting |-> [warning |-> formattingWarning, error |-> formattingError],
     total |-> [warning |-> totalWarning, error |-> totalError]]

CONSECUTIVE_THRESHOLD == 3

MaxMetrics == 100

MaxAlerts == 20

HealthLimit == 3

\* the operation names the monitor is given, spelled out
OperationChars ==
    [uuidGeneration |-> <<"u","u","i","d","G","e","n","e","r","a","t","i","o","n">>,
     formatting |-> <<"f","o","r","m","a","t","t","i","n","g">>,
     render |-> <<"r","e","n","d","e","r">>]

\* String.prototype.includes
Includes(s, sub) ==
    \E i \in 0..(Len(s) - Len(sub)) :
        \A j \in 1..Len(sub) : s[i + j] = sub[j]

\* the thresholds and the operationName checkPerformanceAlerts maps an
\* operation to
OperationClass(operation) ==
    LET lower == toLowerCase(OperationChars[operation])
    IN  IF Includes(lower, <<"u","u","i","d">>) \/ Includes(lower, <<"g","e","n","e","r","a","t">>)
        THEN [threshold |-> DEFAULT_THRESHOLDS.uuidGeneration, operationName |-> "UUID Generation"]
        ELSE IF Includes(lower, <<"f","o","r","m","a","t">>)
        THEN [threshold |-> DEFAULT_THRESHOLDS.formatting, operationName |-> "UUID Formatting"]
        ELSE [threshold |-> DEFAULT_THRESHOLDS.total, operationName |-> "Total Operation"]

\* a slice that keeps the oldest n entries
LastN_KeepsOldest(q, n) == IF Len(q) > n THEN SubSeq(q, 1, n) ELSE q

\* array.slice(-n)
LastN(q, n) == IF Len(q) > n THEN SubSeq(q, Len(q) - n + 1, Len(q)) ELSE q

\* a new PerformanceMonitor; consecutiveFailures.get(key) || 0 reads a
\* missing key as 0
NewMonitor ==
    [completedMetrics |-> <<>>, alerts |-> <<>>,
     consecutiveFailures |-> [k \in {"UUID Generation", "UUID Formatting", "Total Operation"} |-> 0]]

addAlert(m, alert) == [m EXCEPT !.alerts = LastN(Append(@, alert), MaxAlerts)]

\* a monitor that alerts on every slow sample
checkPerformanceAlerts_NoCounter(m, operation, duration) ==
    LET c == OperationClass(operation)
        key == c.operationName
        isCritical == duration >= c.threshold.error
    IN  IF duration >= c.threshold.warning
        THEN addAlert([m EXCEPT !.consecutiveFailures[key] = @ + 1],
                      [type |-> IF isCritical THEN "error" ELSE "warning",
                       operation |-> key,
                       currentValue |-> duration,
                       threshold |-> IF isCritical THEN c.threshold.error
                                     ELSE c.threshold.warning])
        ELSE [m EXCEPT !.consecutiveFailures[key] = 0]

checkPerformanceAlerts(m, operation, duration) ==
    LET c == OperationClass(operation)
        key == c.operationName
        isSlowPerformance == duration >= c.threshold.warning
        isCritical == duration >= c.threshold.error
    IN  IF isSlowPerformance
        THEN LET currentCount == m.consecutiveFailures[key]
                 m1 == [m EXCEPT !.consecutiveFailures[key] = currentCount + 1]
                 shouldAlert == isCritical \/ (currentCount + 1) >= CONSECUTIVE_THRESHOLD
             IN  IF shouldAlert
                 THEN addAlert(m1, [type |-> IF isCritical THEN "error" ELSE "warning",
                                    operation |-> key,
                                    currentValue |-> duration,
                                    threshold |-> IF isCritical THEN c.threshold.error
                                                  ELSE c.threshold.warning])
                 ELSE m1
        ELSE [m EXCEPT !.consecutiveFailures[key] = 0]

\* endTiming of a timing that startTiming(operation) began duration ms ago
endTiming(m, operation, duration) ==
    LET m1 == [m EXCEPT !.completedMetrics =
                   Append(@, [operation |-> operation, duration |-> duration])]
        m2 == checkPerformanceAlerts(m1, operation, duration)
    IN  [m2 EXCEPT !.completedMetrics = LastN(@, MaxMetrics)]

Reverse(q) == [i \in 1..Len(q) |-> q[Len(q) + 1 - i]]

\* getAlerts(undefined, limit): the most recent alerts, newest first
getAlerts(m, limit) == Reverse(LastN(m.alerts, limit))

getHealthStatus(m) ==
    LET recentAlerts == getAlerts(m, HealthLimit)
        hasErrors == \E i \in 1..Len(recentAlerts) : recentAlerts[i].type = "error"
        hasWarnings == \E i \in 1..Len(recentAlerts) : recentAlerts[i].type = "warning"
    IN  IF hasErrors THEN "critical" ELSE IF hasWarnings THEN "warning" ELSE "good"

(***************************************************************************)
(* useUUIDGenerator                                                        *)
(***************************************************************************)
VARIABLES
    crypto,          \* which primitives globalThis.crypto offers
    storage,         \* localStorage['uuid-generator-preferences']
    durations,       \* the elapsed times performance.now() can measure, in ms
    initialConfig,   \* the hook's argument
    mounted,         \* the effects of the first render have run
    config,          \* useState: config
    result,          \* useState: result
    isGenerating,    \* useState: isGenerating
    error,           \* useState: error
    debouncedConfig, \* useDebounce(config, 300): debouncedValue
    debounceTimer,   \* useDebounce: the pending timeout and the value it holds
    saveTimer,       \* useDebouncedCallback: the pending timeout and its argument
    timers0,         \* the pending setTimeout(..., 0) callbacks, oldest first
    regenerateRef,   \* what the current regenerate callback closes over
    rngDraws,        \* draws taken from the random source
    generatorLog,    \* calls of generateUUIDs and the configuration of the last one
    updates,         \* updateConfig calls made
    lastUpdate,      \* the argument of the last updateConfig call
    burst,           \* accepted count or version updates since the debounce timer last fired
    regens,          \* regenerate calls made
    call,            \* a direct call of a library function
    clipEnv,         \* what the page offers to a copy
    clipboard,       \* the text the last copy handed over and the text the system clipboard holds
    copied,          \* the CopyResult of the last copyAll or copySingle
    monitor,         \* the PerformanceMonitor
    unmounted        \* the component has been unmounted

vars == <<crypto, storage, durations, initialConfig, mounted, config, result, isGenerating,
          error, debouncedConfig, debounceTimer, saveTimer, timers0,
          regenerateRef, rngDraws, generatorLog, updates, lastUpdate, burst,
          regens, call, clipEnv, clipboard, copied, monitor, unmounted>>

envVars == <<crypto, initialConfig, durations, clipEnv>>

\* what the cycles, timers and updates of the hook leave alone
sideVars == <<clipboard, copied, monitor, unmounted>>

\* updateConfig and regenerate calls the caller makes
MaxCalls == 2

Durations == {1, 60}

Updates ==
    { [count |-> Num(103)],
      [version |-> "v1"],
      [upperCase |-> TRUE],
      [count |-> Num(2), separateWithCommas |-> TRUE],
      [count |-> Num(0)] }

\* the time of a write, as new Date().toISOString() gives it
ISONow == "2026-01-01T00:00:00.000Z"

SavedPreferences ==
    Some(JSONstringify(JObject(
        [version |-> JString(SCHEMA_VERSION),
         config |-> JObject([count |-> JNumber(Num(5)), upperCase |-> JBoolean(TRUE)]),
         lastUsed |-> JString(ISONow)])))

AllCrypto == [randomUUID |-> TRUE, getRandomValues |-> TRUE]

NoCrypto == [randomUUID |-> FALSE, getRandomValues |-> FALSE]

\* the environments the hook is mounted in
Environments ==
    { [crypto |-> AllCrypto, storage |-> None, initialConfig |-> None, durations |-> Durations,
        clipEnv |-> SecureClipboard],
      [crypto |-> AllCrypto, storage |-> SavedPreferences, initialConfig |-> None, durations |-> Durations,
        clipEnv |-> SecureClipboard],
      [crypto |-> AllCrypto, storage |-> None, initialConfig |-> Some([count |-> Num(103)]), durations |-> Durations,
        clipEnv |-> SecureClipboard],
      [crypto |-> AllCrypto, storage |-> None, initialConfig |-> Some([count |-> Num(0)]), durations |-> Durations,
        clipEnv |-> SecureClipboard],
      [crypto |-> NoCrypto, storage |-> None, initialConfig |-> None, durations |-> Durations,
        clipEnv |-> SecureClipboard] }

IdleCall == [pc |-> "none"]

\* what the callbacks of one render read and write
HookState ==
    [config |-> config, result |-> result, isGenerating |-> isGenerating,
     error |-> error, timers0 |-> timers0, rngDraws |-> rngDraws,
     generatorLog |-> generatorLog]

\* React drops the state updates of a component that has been unmounted
Commit(s) ==
    /\ IF unmounted
       THEN UNCHANGED <<config, result, isGenerating, error>>
       ELSE /\ config' = s.config
            /\ result' = s.result
            /\ isGenerating' = s.isGenerating
            /\ error' = s.error
    /\ timers0' = s.timers0
    /\ rngDraws' = s.rngDraws
    /\ generatorLog' = s.generatorLog

\* an auto-reformat effect that leaves the result as it is
Reformat_KeepsOutput(s, formatTimeMs) == s

\* the auto-reformat effect; it runs after a render in which a format flag
\* or result.uuids has changed
Reformat(s, formatTimeMs) ==
    IF s.result = None THEN s
    ELSE [s EXCEPT !.result = Some([s.result[1] EXCEPT
              !.formattedOutput = FormatCall(s.result[1].uuids, FormatOptions(s.config)),
              !.performanceMetrics.formatTimeMs = formatTimeMs])]

\* a regenerateInternal without its finally block
CompleteCycle_StaysGenerating(s, cycleConfig, uuids, generationTimeMs, formatTimeMs, reformatMs) ==
    Reformat(
        [s EXCEPT !.result = Some([uuids |-> uuids,
                      formattedOutput |-> FormatCall(uuids, FormatOptions(cycleConfig)),
                      performanceMetrics |-> [generationTimeMs |-> generationTimeMs,
                                              formatTimeMs |-> formatTimeMs]])],
        reformatMs)

\* a cycle whose new result does not trigger the auto-reformat effect
CompleteCycle_NoReformat(s, cycleConfig, uuids, generationTimeMs, formatTimeMs, reformatMs) ==
    [s EXCEPT !.result = Some([uuids |-> uuids,
                  formattedOutput |-> FormatCall(uuids, FormatOptions(cycleConfig)),
                  performanceMetrics |-> [generationTimeMs |-> generationTimeMs,
                                          formatTimeMs |-> formatTimeMs]]),
              !.isGenerating = FALSE]

\* regenerateInternal from  const { result: formattedOutput ... }  to its end
\* and the auto-reformat effect that the new result.uuids triggers
CompleteCycle(s, cycleConfig, uuids, generationTimeMs, formatTimeMs, reformatMs) ==
    Reformat(
        [s EXCEPT !.result = Some([uuids |-> uuids,
                      formattedOutput |-> FormatCall(uuids, FormatOptions(cycleConfig)),
                      performanceMetrics |-> [generationTimeMs |-> generationTimeMs,
                                              formatTimeMs |-> formatTimeMs]]),
                  !.isGenerating = FALSE],
        reformatMs)

\* a catch block that also clears the result
FailCycle_ClearsResult(s, message) ==
    [s EXCEPT !.error = Some(message), !.isGenerating = FALSE, !.result = None]

\* the catch and finally blocks of regenerateInternal
FailCycle(s, message) == [s EXCEPT !.error = Some(message), !.isGenerating = FALSE]

\* the continuation of a generator call whose await has settled
SettleCycle(s, cycleConfig, r, gd, fd, rd) ==
    IF r.status = "rejected" THEN FailCycle(s, r.error)
    ELSE IF r.status = "resolved" THEN CompleteCycle(s, cycleConfig, r.frame.uuids, gd, fd, rd)
    ELSE [s EXCEPT !.timers0 = Append(@, [kind |-> "cycle", config |-> cycleConfig,
                                           frame |-> r.frame])]

\* regenerateInternal as created by a render whose isGenerating and config
\* are those of closure
regenerateInternal(s, closure, gd, fd, rd) ==
    IF closure.isGenerating THEN s
    ELSE LET r == generateUUIDs(closure.config, crypto, s.rngDraws)
             s1 == [s EXCEPT !.isGenerating = TRUE,
                             !.error = None,
                             !.rngDraws = @ + Len(r.frame.uuids),
                             !.generatorLog = [calls |-> @.calls + 1,
                                               config |-> closure.config]]
         IN  SettleCycle(s1, closure.config, r, gd, fd, rd)

Closure(g, c) == [isGenerating |-> g, config |-> c]

\* useState(() => ({ ...defaultConfig, ...initialConfig }))
FirstConfig ==
    IF initialConfig = None THEN defaultConfig ELSE Merge(defaultConfig, initialConfig[1])

\* regenerateInternal and regenerate as the first render creates them
FirstClosure == Closure(FALSE, FirstConfig)

\* the state after the first render, in one of the environments envs
HookInit(envs) ==
    /\ \E e \in envs :
        /\ crypto = e.crypto
        /\ storage = e.storage
        /\ initialConfig = e.initialConfig
        /\ durations = e.durations
        /\ clipEnv = e.clipEnv
    /\ mounted = FALSE
    /\ config = FirstConfig
    /\ result = None
    /\ isGenerating = FALSE
    /\ error = None
    /\ debouncedConfig = config
    /\ debounceTimer = None
    /\ saveTimer = None
    /\ timers0 = <<>>
    /\ regenerateRef = FirstClosure
    /\ rngDraws = 0
    /\ generatorLog = [calls |-> 0, config |-> config]
    /\ updates = 0
    /\ lastUpdate = <<>>
    /\ burst = 0
    /\ regens = 0
    /\ call = IdleCall
    /\ clipboard = EmptyClipboard
    /\ copied = None
    /\ monitor = NewMonitor
    /\ unmounted = FALSE

CoordInit == HookInit(Environments)

\* the effects of the first render, in the order the hook declares them,
\* and the continuations they leave runnable
Mount ==
    /\ ~mounted
    /\ mounted' = TRUE
    /\ \E gd \in durations, fd \in durations, rd \in durations :
        LET saved == IF initialConfig = None THEN loadPreferences("works", storage) ELSE <<>>
            \* the initial-generation effect sets its timeout, then the
            \* auto-regenerate effect calls regenerateInternal
            s0 == [HookState EXCEPT
                      !.timers0 = Append(@, [kind |-> "init"])]
            \* loadPreferences resolves before the generator call settles
            loaded == DOMAIN saved # {}
            merged == IF loaded THEN Merge(config, saved) ELSE config
            r == generateUUIDs(config, crypto, rngDraws)
            s1 == [s0 EXCEPT !.isGenerating = TRUE,
                             !.error = None,
                             !.config = merged,
                             !.rngDraws = @ + Len(r.frame.uuids),
                             !.generatorLog = [calls |-> @.calls + 1, config |-> config]]
            s2 == SettleCycle(s1, config, r, gd, fd, rd)
        IN  /\ Commit(s2)
            /\ debounceTimer' = Some(merged)
            /\ saveTimer' = Some(merged)
            /\ regenerateRef' = (IF loaded THEN Closure(s2.isGenerating, merged)
                                 ELSE regenerateRef)
    /\ UNCHANGED <<envVars, storage, debouncedConfig, updates, lastUpdate, burst,
                   regens, call, sideVars>>

FlagsChanged(old, new) == \E k \in FormatKeys : old[k] # new[k]

\* an updateConfig whose save effect leaves a pending timeout as it is
UpdateConfig_KeepsSaveTimer(u) ==
    /\ mounted
    /\ updates + regens < MaxCalls
    /\ updates' = updates + 1
    /\ lastUpdate' = u
    /\ LET validationResult == validateConfig(u)
       IN  IF ~validationResult.isValid
           THEN LET firstError == validationResult.errors[1]
                    userMessage == getValidationMessage(firstError.field, u[firstError.field])
                IN  /\ error' = userMessage
                    /\ UNCHANGED <<config, result, debounceTimer, saveTimer,
                                   regenerateRef, burst>>
           ELSE \E rd \in durations :
                LET merged == Merge(config, u)
                    s1 == [HookState EXCEPT !.config = merged, !.error = None]
                    s2 == IF FlagsChanged(config, merged) THEN Reformat(s1, rd) ELSE s1
                IN  /\ config' = merged
                    /\ error' = None
                    /\ result' = s2.result
                    /\ debounceTimer' = Some(merged)
                    /\ saveTimer' = (IF saveTimer = None THEN Some(merged) ELSE saveTimer)
                    /\ regenerateRef' = Closure(isGenerating, merged)
                    /\ burst' = (IF {"count", "version"} \cap DOMAIN u # {}
                                 THEN burst + 1 ELSE burst)
    /\ UNCHANGED <<envVars, storage, mounted, isGenerating, debouncedConfig, timers0,
                   rngDraws, generatorLog, regens, call, sideVars>>

\* updateConfig(updates), the render it causes and that render's effects:
\* the save and debounce timers restart, regenerate is created anew, and the
\* auto-reformat effect runs if a format flag has changed
UpdateConfig(u) ==
    /\ mounted
    /\ updates + regens < MaxCalls
    /\ updates' = updates + 1
    /\ lastUpdate' = u
    /\ LET validationResult == validateConfig(u)
       IN  IF ~validationResult.isValid
           THEN LET firstError == validationResult.errors[1]
                    userMessage == getValidationMessage(firstError.field, u[firstError.field])
                IN  /\ error' = userMessage
                    /\ UNCHANGED <<config, result, debounceTimer, saveTimer,
                                   regenerateRef, burst>>
           ELSE \E rd \in durations :
                LET merged == Merge(config, u)
                    s1 == [HookState EXCEPT !.config = merged, !.error = None]
                    s2 == IF FlagsChanged(config, merged) THEN Reformat(s1, rd) ELSE s1
                IN  /\ config' = merged
                    /\ error' = None
                    /\ result' = s2.result
                    /\ debounceTimer' = Some(merged)
                    /\ saveTimer' = Some(merged)
                    /\ regenerateRef' = Closure(isGenerating, merged)
                    /\ burst' = (IF {"count", "version"} \cap DOMAIN u # {}
                                 THEN burst + 1 ELSE burst)
    /\ UNCHANGED <<envVars, storage, mounted, isGenerating, debouncedConfig, timers0,
                   rngDraws, generatorLog, regens, call, sideVars>>

\* an auto-regenerate effect that runs whenever the timeout fires
DebounceFire_Always ==
    /\ mounted
    /\ debounceTimer # None
    /\ \A i \in 1..Len(timers0) : timers0[i].kind # "init"
    /\ debounceTimer' = None
    /\ burst' = 0
    /\ debouncedConfig' = debounceTimer[1]
    /\ \E gd \in durations, fd \in durations, rd \in durations :
           Commit(regenerateInternal(HookState, Closure(isGenerating, config), gd, fd, rd))
    /\ UNCHANGED <<envVars, storage, mounted, saveTimer, regenerateRef,
                   updates, lastUpdate, regens, call, sideVars>>

\* the timeout of useDebounce fires: setDebouncedValue(value); the
\* auto-regenerate effect runs if count or version of the debounced value
\* has changed
DebounceFire ==
    /\ mounted
    /\ debounceTimer # None
    /\ \A i \in 1..Len(timers0) : timers0[i].kind # "init"
    /\ debounceTimer' = None
    /\ burst' = 0
    /\ debouncedConfig' = debounceTimer[1]
    /\ IF debounceTimer[1].count # debouncedConfig.count
          \/ debounceTimer[1].version # debouncedConfig.version
       THEN \E gd \in durations, fd \in durations, rd \in durations :
               Commit(regenerateInternal(HookState, Closure(isGenerating, config), gd, fd, rd))
       ELSE UNCHANGED <<config, result, isGenerating, error, timers0, rngDraws, generatorLog>>
    /\ UNCHANGED <<envVars, storage, mounted, saveTimer, regenerateRef,
                   updates, lastUpdate, regens, call, sideVars>>

\* the timeout of the debounced save fires: storageUtils.savePreferences
SaveFire ==
    /\ mounted
    /\ saveTimer # None
    /\ debounceTimer = None
    /\ saveTimer' = None
    /\ storage' = savePreferences("works", storage, saveTimer[1], ISONow).stored
    /\ UNCHANGED <<envVars, mounted, config, result, isGenerating, error,
                   debouncedConfig, debounceTimer, timers0, regenerateRef,
                   rngDraws, generatorLog, updates, lastUpdate, burst, regens, call, sideVars>>

\* the oldest setTimeout(..., 0) fires: the initial generation, which calls
\* the regenerateInternal of the first render
InitialGeneration ==
    /\ timers0 # <<>>
    /\ Head(timers0).kind = "init"
    /\ \E gd \in durations, fd \in durations, rd \in durations :
        Commit(regenerateInternal([HookState EXCEPT !.timers0 = Tail(@)],
                                  FirstClosure, gd, fd, rd))
    /\ UNCHANGED <<envVars, storage, mounted, debouncedConfig, debounceTimer, saveTimer,
                   regenerateRef, updates, lastUpdate, burst, regens, call, sideVars>>

\* the oldest setTimeout(..., 0) fires: generateUUIDBatch resumes after its
\* yield and runs its next iteration
ResumeCycle ==
    /\ timers0 # <<>>
    /\ Head(timers0).kind = "cycle"
    /\ \E gd \in durations, fd \in durations, rd \in durations :
        LET c == Head(timers0)
            r == BatchIteration(c.frame, crypto, rngDraws)
            s1 == [HookState EXCEPT !.timers0 = Tail(@),
                                    !.rngDraws = @ + Drawn(c.frame, r)]
        IN  Commit(SettleCycle(s1, c.config, r, gd, fd, rd))
    /\ UNCHANGED <<envVars, storage, mounted, debouncedConfig, debounceTimer, saveTimer,
                   regenerateRef, updates, lastUpdate, burst, regens, call, sideVars>>

\* the caller invokes the regenerate callback of the current render
Regenerate ==
    /\ mounted
    /\ updates + regens < MaxCalls
    /\ regens' = regens + 1
    /\ \E gd \in durations, fd \in durations, rd \in durations :
        Commit(regenerateInternal(HookState, regenerateRef, gd, fd, rd))
    /\ UNCHANGED <<envVars, storage, mounted, debouncedConfig, debounceTimer, saveTimer,
                   regenerateRef, updates, lastUpdate, burst, call, sideVars>>

\* the caller invokes the regenerate callback it was given by the first
\* render
RegenerateHeld ==
    /\ mounted
    /\ FirstClosure # regenerateRef
    /\ updates + regens < MaxCalls
    /\ regens' = regens + 1
    /\ \E gd \in durations, fd \in durations, rd \in durations :
        Commit(regenerateInternal(HookState, FirstClosure, gd, fd, rd))
    /\ UNCHANGED <<envVars, storage, mounted, debouncedConfig, debounceTimer, saveTimer,
                   regenerateRef, updates, lastUpdate, burst, call, sideVars>>

\* the component is unmounted: the cleanup functions of the effects run.
\* Those of useDebounce and useDebouncedCallback clear their timeouts; the
\* effect of the initial generation returns no cleanup, and the generator's
\* own setTimeout(resolve, 0) is not the hook's to clear
Unmount ==
    /\ mounted
    /\ ~unmounted
    /\ unmounted' = TRUE
    /\ debounceTimer' = None
    /\ saveTimer' = None
    /\ UNCHANGED <<envVars, storage, mounted, config, result, isGenerating, error,
                   debouncedConfig, timers0, regenerateRef, rngDraws, generatorLog,
                   updates, lastUpdate, burst, regens, call, clipboard, copied, monitor>>

\* the clipboard after a copyToClipboard(text) with outcome o
Handed(text, o) ==
    [handed |-> Some(text),
     written |-> IF o.written = None THEN clipboard.written ELSE o.written]

\* the caller invokes copyAll and its await settles; a formattedOutput is
\* falsy when it is the empty string, the output of no identifiers
CopyAll ==
    /\ mounted
    /\ IF result = None \/ Len(result[1].formattedOutput.uuids) = 0
       THEN /\ copied' = Some([type |-> "bulk", success |-> FALSE, content |-> Literal(<<>>)])
            /\ clipboard' = [clipboard EXCEPT !.handed = None]
       ELSE LET text == OutputText(result[1].formattedOutput)
                o == copyToClipboard(Some(text), clipEnv)
            IN  /\ copied' = Some([type |-> "bulk", success |-> o.returned, content |-> text])
                /\ clipboard' = Handed(text, o)
    /\ UNCHANGED <<envVars, storage, mounted, config, result, isGenerating, error,
                   debouncedConfig, debounceTimer, saveTimer, timers0, regenerateRef,
                   rngDraws, generatorLog, updates, lastUpdate, burst, regens, call,
                   monitor, unmounted>>

\* the copy button of row i of the list: onCopySingle(uuid) with the
\* element of result.uuids the row shows, which is copySingle(uuid)
CopySingle(i) ==
    /\ mounted
    /\ result # None
    /\ i \in 1..Len(result[1].uuids)
    /\ LET text == UUIDArgument(result[1].uuids[i])
           o == copyToClipboard(Some(text), clipEnv)
       IN  /\ copied' = Some([type |-> "single", success |-> o.returned, content |-> text])
           /\ clipboard' = Handed(text, o)
    /\ UNCHANGED <<envVars, storage, mounted, config, result, isGenerating, error,
                   debouncedConfig, debounceTimer, saveTimer, timers0, regenerateRef,
                   rngDraws, generatorLog, updates, lastUpdate, burst, regens, call,
                   monitor, unmounted>>

Next ==
    \/ Mount
    \/ \E u \in Updates : UpdateConfig(u)
    \/ DebounceFire
    \/ SaveFire
    \/ InitialGeneration
    \/ ResumeCycle
    \/ Regenerate
    \/ RegenerateHeld

Spec == CoordInit /\ [][Next]_vars

(***************************************************************************)
(* Direct calls of the generator                                           *)
(***************************************************************************)
MaxGenCount == 1001

HalfCounts == {Half(0), Half(1), Half(2), Half(100), Half(101), Half(149), Half(1000)}

GenCounts == {Num(n) : n \in 0..MaxGenCount} \cup HalfCounts

GenVersions == {"v4", "v1"}

GenInit ==
    /\ crypto \in Crypto
    /\ \E c \in GenCounts, v \in GenVersions :
        LET cfg == Merge(defaultConfig, [count |-> c, version |-> v])
        IN  call = [pc |-> "ready", config |-> cfg, frame |-> NewFrame(cfg), error |-> ""]
    /\ storage = None
    /\ durations = Durations
    /\ initialConfig = None
    /\ mounted = FALSE
    /\ config = defaultConfig
    /\ result = None
    /\ isGenerating = FALSE
    /\ error = None
    /\ debouncedConfig = defaultConfig
    /\ debounceTimer = None
    /\ saveTimer = None
    /\ timers0 = <<>>
    /\ regenerateRef = Closure(FALSE, defaultConfig)
    /\ rngDraws = 0
    /\ generatorLog = [calls |-> 0, config |-> defaultConfig]
    /\ updates = 0
    /\ lastUpdate = <<>>
    /\ burst = 0
    /\ regens = 0
    /\ clipEnv = SecureClipboard
    /\ clipboard = EmptyClipboard
    /\ copied = None
    /\ monitor = NewMonitor
    /\ unmounted = FALSE

hookVars == <<storage, durations, initialConfig, mounted, config, result, isGenerating, error,
              debouncedConfig, debounceTimer, saveTimer, timers0, regenerateRef,
              generatorLog, updates, lastUpdate, burst, regens,
              clipEnv, clipboard, copied, monitor, unmounted>>

\* uuidGenerator.generateUUIDs(config) is called and runs to its first await
GenCall ==
    /\ call.pc = "ready"
    /\ LET r == generateUUIDs(call.config, crypto, rngDraws)
       IN  /\ call' = [call EXCEPT !.pc = r.status, !.frame = r.frame, !.error = r.error]
           /\ rngDraws' = rngDraws + Len(r.frame.uuids)
    /\ UNCHANGED <<crypto, hookVars>>

\* the setTimeout(resolve, 0) of generateUUIDBatch fires
GenResume ==
    /\ call.pc = "pending"
    /\ LET r == BatchIteration(call.frame, crypto, rngDraws)
       IN  /\ call' = [call EXCEPT !.pc = r.status, !.frame = r.frame, !.error = r.error]
           /\ rngDraws' = rngDraws + Drawn(call.frame, r)
    /\ UNCHANGED <<crypto, hookVars>>

GenNext == GenCall \/ GenResume

SpecGen == GenInit /\ [][GenNext]_vars

\* a timer that is set fires, and a called function runs
FairSpecGen == SpecGen /\ WF_vars(GenCall) /\ WF_vars(GenResume)

\* the function uuidGenerator.getFallbackGenerator() returns is called with
\* the count of the configuration
GenFallback ==
    /\ call.pc = "ready"
    /\ LET uuids == getFallbackGenerator(crypto, call.config.count, rngDraws)
       IN  /\ call' = [call EXCEPT !.pc = "fallback", !.frame.uuids = uuids]
           /\ rngDraws' = rngDraws + Len(uuids)
    /\ UNCHANGED <<crypto, hookVars>>

StrategyNext == GenCall \/ GenResume \/ GenFallback

\* the generator with both of its entry points
SpecStrategy == GenInit /\ [][StrategyNext]_vars

(***************************************************************************)
(* Specifications of the hook                                              *)
(***************************************************************************)
\* the environments and updates of the specification with fairness
FairEnvironments ==
    { [e EXCEPT !.durations = {60}] :
        e \in { d \in Environments :
                  /\ d.storage = None
                  /\ d.initialConfig \in {None, Some([count |-> Num(103)])} } }

FairUpdates == {[count |-> Num(103)], [version |-> "v1"]}

FairNext ==
    \/ Mount
    \/ \E u \in FairUpdates : UpdateConfig(u)
    \/ DebounceFire
    \/ SaveFire
    \/ InitialGeneration
    \/ ResumeCycle
    \/ Regenerate
    \/ RegenerateHeld

\* a timer that is set fires
FairSpec ==
    /\ HookInit(FairEnvironments)
    /\ [][FairNext]_vars
    /\ WF_vars(InitialGeneration)
    /\ WF_vars(ResumeCycle)

\* the environments and updates of the specification of the debounced save
SaveEnvironments ==
    { [e EXCEPT !.durations = {1}] :
        e \in {d \in Environments : d.crypto = AllCrypto
                                    /\ d.initialConfig \in {None, Some([count |-> Num(103)])}} }

SaveUpdates == {[count |-> Num(103)], [version |-> "v1"], [upperCase |-> TRUE]}

NextSave ==
    \/ Mount
    \/ \E u \in SaveUpdates : UpdateConfig(u)
    \/ DebounceFire
    \/ SaveFire
    \/ InitialGeneration
    \/ ResumeCycle
    \/ Regenerate

\* every timer that is set fires
FairSpecSave ==
    /\ HookInit(SaveEnvironments)
    /\ [][NextSave]_vars
    /\ WF_vars(InitialGeneration)
    /\ WF_vars(ResumeCycle)
    /\ WF_vars(DebounceFire)
    /\ WF_vars(SaveFire)

\* the hook with its teardown; the caller makes no call after it
NextUnmount ==
    \/ /\ ~unmounted
       /\ \/ Mount
          \/ \E u \in SaveUpdates : UpdateConfig(u)
          \/ Regenerate
    \/ Unmount
    \/ DebounceFire
    \/ SaveFire
    \/ InitialGeneration
    \/ ResumeCycle

SpecUnmount == HookInit(SaveEnvironments) /\ [][NextUnmount]_vars

\* the environments and updates of the specification of updateConfig
UpdateEnvironments ==
    { [e EXCEPT !.durations = {1}] :
        e \in {d \in Environments : d.crypto = AllCrypto /\ d.initialConfig = None} }

ValidationUpdates ==
    { [count |-> Num(10), upperCase |-> TRUE],
      [count |-> Num(1000)],
      [count |-> Num(1001)],
      [count |-> Num(0)],
      [count |-> Half(1)],
      [version |-> "v1"],
      [version |-> "v2"],
      [theme |-> "dark"],
      [theme |-> "neon"],
      [count |-> Num(5), theme |-> "neon"],
      [includeBraces |-> TRUE, version |-> "v7"],
      [includeHyphens |-> FALSE, includeQuotes |-> TRUE] }

NextUpdate ==
    \/ Mount
    \/ \E u \in ValidationUpdates : UpdateConfig(u)
    \/ DebounceFire
    \/ SaveFire
    \/ InitialGeneration
    \/ ResumeCycle

SpecUpdate == HookInit(UpdateEnvironments) /\ [][NextUpdate]_vars

\* the hook as GenInit leaves it, for the direct calls of the library
\* the hook not rendered; the monitor is the caller's
IdleHookWith(m) ==
    /\ crypto = AllCrypto
    /\ storage = None
    /\ durations = Durations
    /\ initialConfig = None
    /\ mounted = FALSE
    /\ config = defaultConfig
    /\ result = None
    /\ isGenerating = FALSE
    /\ error = None
    /\ debouncedConfig = defaultConfig
    /\ debounceTimer = None
    /\ saveTimer = None
    /\ timers0 = <<>>
    /\ regenerateRef = Closure(FALSE, defaultConfig)
    /\ rngDraws = 0
    /\ generatorLog = [calls |-> 0, config |-> defaultConfig]
    /\ updates = 0
    /\ lastUpdate = <<>>
    /\ burst = 0
    /\ regens = 0
    /\ clipEnv = SecureClipboard
    /\ clipboard = EmptyClipboard
    /\ copied = None
    /\ monitor = m
    /\ unmounted = FALSE

IdleHook == IdleHookWith(NewMonitor)

libraryVars == <<crypto, hookVars, rngDraws>>

\* Direct calls of formatUtils
MaxIds == 3

\* two generated identifiers and a string of mixed case
FormatStrings ==
    { UUIDText(Identifier("randomUUID", 0, 16)),
      UUIDText(Identifier("getRandomValues", 1, 16)),
      <<"A", "b", "-", "c", "D", "9", "-", "f">> }

AllFormatOptions == [FormatKeys -> BOOLEAN]

FormatInit ==
    /\ IdleHook
    /\ \E n \in 0..MaxIds : \E uuids \in [1..n -> FormatStrings], options \in AllFormatOptions :
           call = [pc |-> "ready", uuids |-> uuids, options |-> options]

\* formatUtils.formatSingleUUID(uuids[i], options)
FormatOne(i) ==
    /\ call.pc = "ready"
    /\ i \in 1..Len(call.uuids)
    /\ call' = [pc |-> "formatSingleUUID", uuid |-> call.uuids[i], options |-> call.options,
                out |-> formatSingleUUID(call.uuids[i], call.options)]
    /\ UNCHANGED libraryVars

\* formatUtils.formatUUIDs(uuids, options), called twice
FormatAll ==
    /\ call.pc = "ready"
    /\ call' = [pc |-> "formatUUIDs", uuids |-> call.uuids, options |-> call.options,
                out |-> formatUUIDs(call.uuids, call.options),
                again |-> formatUUIDs(call.uuids, call.options)]
    /\ UNCHANGED libraryVars

NextFormat == (\E i \in 1..MaxIds : FormatOne(i)) \/ FormatAll

SpecFormat == FormatInit /\ [][NextFormat]_vars

\* Direct calls of storageUtils
StoreConfigs ==
    { Merge(defaultConfig, [count |-> c, version |-> v, theme |-> t,
                            upperCase |-> u, autoCopy |-> a]) :
        c \in {Num(1), Num(5)}, v \in {"v4", "v1"}, t \in {"system", "dark"},
        u \in BOOLEAN, a \in BOOLEAN }

Present(k, values) == {<<>>} \cup {[x \in {k} |-> v] : v \in values}

\* config objects a stored record can hold: each field missing, valid, out
\* of range or of the wrong type, and a field the schema does not know
StoredConfigs ==
    { Merge(Merge(c, v), Merge(u, Merge(t, x))) :
        c \in Present("count", {JNumber(Num(5)), JNumber(Half(1)), JNumber(Num(0)),
                                JNumber(Num(1001)), JString("5")}),
        v \in Present("version", {JString("v1"), JString("v2")}),
        u \in Present("upperCase", {JBoolean(TRUE), JString("yes")}),
        t \in Present("theme", {JString("dark"), JString("neon")}),
        x \in Present("extra", {JNumber(Num(7))}) }

\* what the key can hold before a call
StoredTexts ==
    { None, Some(PlainText("")), Some(PlainText("invalid-json")),
      Some(JSONstringify(JNull)),
      Some(JSONstringify(JNumber(Num(5)))),
      Some(JSONstringify(JObject([version |-> JString(SCHEMA_VERSION)]))),
      Some(JSONstringify(JObject([version |-> JString(SCHEMA_VERSION),
                                  config |-> JString("count")]))) }
    \cup { Some(JSONstringify(JObject([version |-> JString(SCHEMA_VERSION),
                                       config |-> JObject(c),
                                       lastUsed |-> JString(ISONow)]))) :
             c \in StoredConfigs }

StoreInit ==
    /\ IdleHook
    /\ \E ls \in LocalStorages, stored \in StoredTexts, c \in StoreConfigs :
           call = [pc |-> "ready", ls |-> ls, stored |-> stored, config |-> c,
                   saved |-> FALSE, returned |-> FALSE, loaded |-> <<>>]

\* storageUtils.savePreferences(config)
StoreSave ==
    /\ call.pc = "ready"
    /\ LET r == savePreferences(call.ls, call.stored, call.config, ISONow)
       IN  call' = [call EXCEPT !.pc = "saved", !.saved = TRUE,
                                !.returned = r.returned, !.stored = r.stored]
    /\ UNCHANGED libraryVars

\* storageUtils.loadPreferences()
StoreLoad ==
    /\ call.pc \in {"ready", "saved"}
    /\ call' = [call EXCEPT !.pc = "loaded",
                            !.loaded = loadPreferences(call.ls, call.stored)]
    /\ UNCHANGED libraryVars

NextStore == StoreSave \/ StoreLoad

SpecStore == StoreInit /\ [][NextStore]_vars

\* Direct calls of clipboardUtils
ClipTexts == {None, Some(Literal(<<>>)), Some(Literal(<<"a", "b">>))}

ClipInit ==
    /\ IdleHook
    /\ \E env \in ClipEnvs, text \in ClipTexts :
           call = [pc |-> "ready", env |-> env, text |-> text,
                   outcome |-> CopyOutcome(FALSE, <<>>, None)]

\* clipboardUtils.copyToClipboard(text) and the settling of its promise
ClipCopy ==
    /\ call.pc = "ready"
    /\ call' = [call EXCEPT !.pc = "copied",
                            !.outcome = copyToClipboard(call.text, call.env)]
    /\ UNCHANGED libraryVars

SpecClipboard == ClipInit /\ [][ClipCopy]_vars

\* Timed operations given to the monitor
MaxSamples == 4

Operations == DOMAIN OperationChars

\* the durations next to the thresholds of an operation
SampleDurations(operation) ==
    LET t == OperationClass(operation).threshold
    IN  {t.warning - 1, t.warning, t.error - 1, t.error}

MonitorInit ==
    /\ IdleHook
    /\ call = [pc |-> "monitor", samples |-> 0, operation |-> "none", duration |-> 0,
               before |-> NewMonitor]

\* PerformanceManager.timeSync / timeAsync: startTiming(operation), the
\* operation, endTiming; call keeps the sample and the monitor before it
RecordSample(operation, duration) ==
    /\ call.pc = "monitor"
    /\ call.samples < MaxSamples
    /\ monitor' = endTiming(monitor, operation, duration)
    /\ call' = [call EXCEPT !.samples = @ + 1, !.operation = operation,
                            !.duration = duration, !.before = monitor]
    /\ UNCHANGED <<envVars, storage, mounted, config, result, isGenerating, error,
                   debouncedConfig, debounceTimer, saveTimer, timers0, regenerateRef,
                   rngDraws, generatorLog, updates, lastUpdate, burst, regens,
                   clipboard, copied, unmounted>>

NextMonitor == \E op \in Operations : \E d \in SampleDurations(op) : RecordSample(op, d)

SpecMonitor == MonitorInit /\ [][NextMonitor]_vars

\* A monitor with a long history: the monitor after fast render samples
\* of 1, 2, ... ms and then slow critical identifier generations, each over
\* the error threshold by its number
LongHistory(fast, slow) ==
    LET c == OperationClass("uuidGeneration")
    IN  [completedMetrics |->
             [i \in 1..(fast + slow) |->
                 IF i <= fast THEN [operation |-> "render", duration |-> i]
                 ELSE [operation |-> "uuidGeneration",
                       duration |-> c.threshold.error + (i - fast)]],
         alerts |->
             [i \in 1..slow |->
                 [type |-> "error", operation |-> c.operationName,
                  currentValue |-> c.threshold.error + i,
                  threshold |-> c.threshold.error]],
         consecutiveFailures |->
             [NewMonitor.consecutiveFailures EXCEPT ![c.operationName] = slow]]

HistoryInit ==
    \E fast \in {totalWarning - 2, totalWarning - 1}, slow \in {MaxAlerts - 2, MaxAlerts} :
        /\ IdleHookWith(LongHistory(fast, slow))
        /\ call = [pc |-> "monitor", samples |-> 0, operation |-> "none", duration |-> 0,
                   before |-> monitor]

NextHistory ==
    \E op \in Operations :
        \E d \in {OperationClass(op).threshold.warning - 1, OperationClass(op).threshold.error} :
            RecordSample(op, d)

SpecHistory == HistoryInit /\ [][NextHistory]_vars

\* The byte construction on buffers of any content
ByteValues == 0..255

\* bytes on both sides of every mask
ByteSamples == {0, 79, 128, 255}

\* the other bytes of an identifier
Fillers == {90, 255}

\* bytes 6 and 8 of the later identifiers of a buffer
LaterBytes == {0, 255}

MaxBatch == 2

\* buffers of MaxBatch identifiers: in the first, byte 6 or byte 8 takes
\* every value
Buffers ==
    { [j \in 1..(16 * MaxBatch) |->
          IF j = 7 THEN b6 ELSE IF j = 9 THEN b8
          ELSE IF j <= 16 THEN f ELSE IF j % 16 \in {7, 9} THEN g ELSE 255 - f] :
        b6 \in ByteValues, b8 \in ByteSamples, f \in Fillers, g \in LaterBytes }
    \cup
    { [j \in 1..(16 * MaxBatch) |->
          IF j = 7 THEN b6 ELSE IF j = 9 THEN b8
          ELSE IF j <= 16 THEN f ELSE IF j % 16 \in {7, 9} THEN g ELSE 255 - f] :
        b6 \in ByteSamples, b8 \in ByteValues, f \in Fillers, g \in LaterBytes }

BytesInit ==
    /\ IdleHook
    /\ \E allBytes \in Buffers :
           call = [pc |-> "ready", allBytes |-> allBytes, bytes |-> <<>>, uuids |-> <<>>]

\* generateV4UUID with the buffer's first 16 bytes as its random bytes
BuildSingle ==
    /\ call.pc = "ready"
    /\ LET bytes == SetVersionBits(SubSeq(call.allBytes, 1, 16))
       IN  call' = [call EXCEPT !.pc = "single", !.bytes = <<bytes>>,
                                !.uuids = <<BytesToUUID(bytes)>>]
    /\ UNCHANGED libraryVars

\* the getRandomValues branch of generateBatch on the whole buffer
BuildBatch ==
    /\ call.pc = "ready"
    /\ LET b == BatchFromBytes(call.allBytes, Num(Len(call.allBytes) \div 16))
       IN  call' = [call EXCEPT !.pc = "batch", !.bytes = b.bytes, !.uuids = b.uuids]
    /\ UNCHANGED libraryVars

NextBytes == BuildSingle \/ BuildBatch

SpecBytes == BytesInit /\ [][NextBytes]_vars

\* CircuitBreaker (error-recovery).  Date.now() is a clock that the
\* environment advances; call holds the breaker, the clock, the calls of fn
\* in flight and what the last step of execute did
MaxExecutes == 4

MaxTime == 5

\* new CircuitBreaker(failureThreshold, recoveryTimeout)
BreakerThresholds == {1, 2}

BreakerTimeouts == {2}

NewBreaker(failureThreshold, recoveryTimeout) ==
    [failureThreshold |-> failureThreshold, recoveryTimeout |-> recoveryTimeout,
     failureCount |-> 0, lastFailureTime |-> 0, state |-> "closed"]

onSuccess(b) == [b EXCEPT !.failureCount = 0, !.state = "closed"]

onFailure(b, now) ==
    [b EXCEPT !.failureCount = @ + 1,
              !.lastFailureTime = now,
              !.state = IF b.failureCount + 1 >= b.failureThreshold THEN "open" ELSE @]

BreakerInit ==
    /\ IdleHook
    /\ \E t \in BreakerThresholds, r \in BreakerTimeouts :
           call = [pc |-> "breaker", breaker |-> NewBreaker(t, r), now |-> 1,
                   inFlight |-> 0, executes |-> 0, invocations |-> 0,
                   event |-> "none", before |-> NewBreaker(t, r), returned |-> None]

\* time passes
Tick ==
    /\ call.pc = "breaker"
    /\ call.now < MaxTime
    /\ call' = [call EXCEPT !.now = @ + 1, !.event = "tick"]
    /\ UNCHANGED libraryVars

\* execute(fn) up to its await: refused while the breaker is open and the
\* timeout has not elapsed, else fn is invoked
ExecuteCall ==
    /\ call.pc = "breaker"
    /\ call.executes < MaxExecutes
    /\ LET b == call.breaker
       IN  IF b.state = "open" /\ call.now - b.lastFailureTime < b.recoveryTimeout
           THEN call' = [call EXCEPT
                    !.executes = @ + 1, !.event = "refused", !.before = b,
                    !.returned = Some([success |-> FALSE, attempts |-> 0,
                                       recoveryStrategy |-> "circuit-breaker-open"])]
           ELSE call' = [call EXCEPT
                    !.executes = @ + 1, !.event = "invoked", !.before = b,
                    !.breaker.state = IF b.state = "open" THEN "half-open" ELSE @,
                    !.invocations = @ + 1,
                    !.inFlight = @ + 1]
    /\ UNCHANGED libraryVars

\* the promise of fn is fulfilled: execute after its await
ExecuteSuccess ==
    /\ call.pc = "breaker"
    /\ call.inFlight > 0
    /\ LET b == onSuccess(call.breaker)
       IN  call' = [call EXCEPT
                !.breaker = b, !.inFlight = @ - 1, !.event = "success",
                !.before = call.breaker,
                !.returned = Some([success |-> TRUE, attempts |-> 1,
                                   recoveryStrategy |->
                                       IF b.state = "half-open"
                                       THEN "circuit-breaker-recovery" ELSE "undefined"])]
    /\ UNCHANGED libraryVars

\* the promise of fn is rejected: the catch block of execute
ExecuteFailure ==
    /\ call.pc = "breaker"
    /\ call.inFlight > 0
    /\ call' = [call EXCEPT
            !.breaker = onFailure(call.breaker, call.now), !.inFlight = @ - 1,
            !.event = "failure", !.before = call.breaker,
            !.returned = Some([success |-> FALSE, attempts |-> 1,
                               recoveryStrategy |-> "circuit-breaker-failure"])]
    /\ UNCHANGED libraryVars

NextBreaker == Tick \/ ExecuteCall \/ ExecuteSuccess \/ ExecuteFailure

SpecBreaker == BreakerInit /\ [][NextBreaker]_vars

\* retryWithBackoff (error-recovery).  call holds the options, the loop
\* variables, what the function is waiting for, and a log of the calls of
\* fn and of the delays waited
MaxMaxRetries == 3

RetryOptions ==
    [maxRetries : -1..MaxMaxRetries, initialDelay : {100, 3000},
     backoffMultiplier : {1, 2, 3}, maxDelay : {50, 5000}]

\* Math.pow(b, i) for integers
RECURSIVE Pow(_, _)
Pow(b, i) == IF i <= 0 THEN 1 ELSE b * Pow(b, i - 1)

\* a delay without its upper limit
RetryDelay_Uncapped(options, i) ==
    options.initialDelay * Pow(options.backoffMultiplier, i)

\* Math.min(initialDelay * Math.pow(backoffMultiplier, i), maxDelay)
RetryDelay(options, i) ==
    Min(options.initialDelay * Pow(options.backoffMultiplier, i), options.maxDelay)

UnknownError == 0

\* the head of the for loop with loop variable i: either fn is invoked,
\* or the loop is left and the failure is returned
RetryLoop(c, i) ==
    IF i <= c.options.maxRetries
    THEN [c EXCEPT !.i = i, !.attempts = i + 1, !.waiting = "fn",
                   !.invocations = @ + 1]
    ELSE [c EXCEPT !.i = i, !.waiting = "returned",
                   !.returned = Some([success |-> FALSE, error |-> c.lastError,
                                      attempts |-> c.attempts,
                                      recoveryStrategy |-> "retry-failed"])]

RetryInit ==
    /\ IdleHook
    /\ \E o \in RetryOptions :
           call = [pc |-> "retry", options |-> o, i |-> 0, attempts |-> 0,
                   lastError |-> UnknownError, waiting |-> "start",
                   invocations |-> 0, failures |-> 0, waits |-> <<>>,
                   returned |-> None]

\* retryWithBackoff(fn, options) up to its first await
RetryCall ==
    /\ call.pc = "retry"
    /\ call.waiting = "start"
    /\ call' = RetryLoop(call, 0)
    /\ UNCHANGED libraryVars

\* the promise of fn is fulfilled: the result is returned
RetryFulfilled ==
    /\ call.pc = "retry"
    /\ call.waiting = "fn"
    /\ call' = [call EXCEPT
            !.waiting = "returned",
            !.returned = Some([success |-> TRUE, error |-> UnknownError,
                               attempts |-> call.attempts,
                               recoveryStrategy |-> IF call.attempts > 1
                                                    THEN "retry-with-backoff"
                                                    ELSE "undefined"])]
    /\ UNCHANGED libraryVars

\* the promise of fn is rejected, with an error named after the invocation:
\* the catch block, and after the last attempt the end of the loop
RetryRejected ==
    /\ call.pc = "retry"
    /\ call.waiting = "fn"
    /\ LET c == [call EXCEPT !.lastError = call.invocations, !.failures = @ + 1]
       IN  IF call.i < call.options.maxRetries
           THEN call' = [c EXCEPT !.waiting = "delay",
                                  !.waits = Append(@, RetryDelay(call.options, call.i))]
           ELSE call' = RetryLoop(c, call.i + 1)
    /\ UNCHANGED libraryVars

\* the timeout of the delay fires: the next iteration of the loop
RetryDelayFires ==
    /\ call.pc = "retry"
    /\ call.waiting = "delay"
    /\ call' = RetryLoop(call, call.i + 1)
    /\ UNCHANGED libraryVars

NextRetry == RetryCall \/ RetryFulfilled \/ RetryRejected \/ RetryDelayFires

SpecRetry == RetryInit /\ [][NextRetry]_vars

\* every promise of fn settles and every timeout fires
FairSpecRetry ==
    /\ SpecRetry
    /\ WF_vars(RetryCall)
    /\ WF_vars(RetryFulfilled \/ RetryRejected)
    /\ WF_vars(RetryDelayFires)

\* the environments and updates of the specification of the copy operations
CopyClipboards ==
    { SecureClipboard,
      [SecureClipboard EXCEPT !.write = "rejects"],
      [SecureClipboard EXCEPT !.clipboard = FALSE, !.writeText = FALSE, !.exec = "false"],
      [SecureClipboard EXCEPT !.isSecureContext = FALSE, !.https = FALSE, !.exec = "throws"] }

CopyEnvironments ==
    { [crypto |-> cr, storage |-> None, initialConfig |-> None, durations |-> {1},
       clipEnv |-> ce] : cr \in {AllCrypto, NoCrypto}, ce \in CopyClipboards }

CopyUpdates ==
    { [upperCase |-> TRUE],
      [includeBraces |-> TRUE, includeHyphens |-> FALSE],
      [count |-> Num(2), separateWithCommas |-> TRUE] }

MaxRows == 2

NextCopy ==
    \/ Mount
    \/ \E u \in CopyUpdates : UpdateConfig(u)
    \/ DebounceFire
    \/ SaveFire
    \/ InitialGeneration
    \/ Regenerate
    \/ CopyAll
    \/ \E i \in 1..MaxRows : CopySingle(i)

SpecCopy == HookInit(CopyEnvironments) /\ [][NextCopy]_vars

(***************************************************************************)
(* Properties                                                              *)
(***************************************************************************)
\* the generation cycles that wait for their next chunk
InFlight == {i \in 1..Len(timers0) : timers0[i].kind = "cycle"}

\* this step calls generateUUIDs
GeneratorCalled == generatorLog'.calls = generatorLog.calls + 1

\* this step is an updateConfig call that was accepted / rejected
UpdateStep == updates' = updates + 1

\* this step is the debounce timer firing
FireStep == debounceTimer # None /\ debounceTimer' = None

\* C1: at most one generation cycle is in flight in every reachable state
C1_AtMostOneInFlight == Cardinality(InFlight) <= 1

\* what a format-only update step and the timer fire after it leave alone
C2_FormatOnlyStep ==
    /\ (/\ UpdateStep
        /\ FlagsChanged(config, config')
        /\ \A k \in DOMAIN config \ FormatKeys : config'[k] = config[k])
       => /\ generatorLog' = generatorLog
          /\ rngDraws' = rngDraws
          /\ timers0' = timers0
          /\ isGenerating' = isGenerating
          /\ (result = None) = (result' = None)
          /\ result # None =>
               /\ result'[1].uuids = result[1].uuids
               /\ result'[1].performanceMetrics.generationTimeMs
                    = result[1].performanceMetrics.generationTimeMs
               /\ result'[1].performanceMetrics.formatTimeMs \in durations
               /\ result'[1].formattedOutput
                    = FormatCall(result[1].uuids, FormatOptions(config'))
    /\ (/\ FireStep
        /\ debounceTimer[1].count = debouncedConfig.count
        /\ debounceTimer[1].version = debouncedConfig.version)
       => /\ generatorLog' = generatorLog
          /\ result' = result

\* C2: a configuration update that changes only format flags never calls
\* the generator: the identifiers and generationTimeMs stay, no cycle
\* starts, and formattedOutput becomes the existing identifiers formatted
\* with the new flags; nor does the debounce timer it restarts call the
\* generator when count and version are as they were
C2_FormatOnlyKeepsIdentifiers == [][C2_FormatOnlyStep]_vars

\* a format flag was changed by an update while a result was shown
C2_Witness ==
    /\ updates = 1
    /\ regens = 0
    /\ lastUpdate = [upperCase |-> TRUE]
    /\ config = Merge(defaultConfig, [upperCase |-> TRUE])
    /\ result # None
    /\ generatorLog.calls = 2
    /\ Len(result[1].uuids) = 1
    /\ FormattedText(result[1].formattedOutput) = toUpperCase(UUIDText(result[1].uuids[1]))
    /\ FormattedText(result[1].formattedOutput) # UUIDText(result[1].uuids[1])

\* C3: a generation cycle uses the configuration that is visible when it
\* starts
C3_CycleUsesVisibleConfig == [][GeneratorCalled => generatorLog'.config = config]_vars

\* every field of the update is in its range
ValidUpdate(u) ==
    /\ "count" \in DOMAIN u =>
          IsInteger(u.count) /\ u.count >= Num(1) /\ u.count <= Num(1000)
    /\ "version" \in DOMAIN u => u.version \in {"v1", "v4"}
    /\ "theme" \in DOMAIN u => u.theme \in {"light", "dark", "system"}

\* an updateConfig step against the validity of its argument
C4_UpdateStep ==
    UpdateStep =>
        IF ValidUpdate(lastUpdate')
        THEN /\ \A k \in DOMAIN lastUpdate' : config'[k] = lastUpdate'[k]
             /\ \A k \in DOMAIN config \ DOMAIN lastUpdate' : config'[k] = config[k]
             /\ DOMAIN config' = DOMAIN config
             /\ error' = None
        ELSE /\ config' = config
             /\ error' # None
             /\ Len(error'[1]) > 0

\* C4: updateConfig validates the whole update first: an update with an
\* invalid field leaves every field of the configuration as it was and sets
\* an error message; a valid update is merged, the other fields stay, and
\* the error is cleared
C4_UpdateAllOrNothing == [][C4_UpdateStep]_vars

\* an update with a valid count and an invalid theme was rejected whole
C4_Witness ==
    /\ lastUpdate = [count |-> Num(5), theme |-> "neon"]
    /\ updates = 1
    /\ config.count # Num(5)
    /\ config.theme = "system"
    /\ error = Some("Please select a valid theme option")

\* the error strings the generator rejects with
GeneratorErrors == {Some(ErrCount), Some(ErrCrypto), Some(ErrVersion)}

\* a step in which a called generator fails
C5_FailStep ==
    (GeneratorCalled /\ error' # None)
       => /\ error' \in GeneratorErrors
          /\ result' = result
          /\ ~isGenerating'
          /\ Cardinality({i \in 1..Len(timers0') : timers0'[i].kind = "cycle"})
               = Cardinality(InFlight)

\* C5: a generation cycle that fails sets an error string and ends, and the
\* previous result is exactly as it was
C5_FailureKeepsResult == [][C5_FailStep]_vars

\* a cycle failed on the version while a result was shown
C5_Witness ==
    /\ error = Some(ErrVersion)
    /\ generatorLog.config.version = "v1"
    /\ result # None
    /\ Len(result[1].uuids) = 1
    /\ ~isGenerating

\* C6: a cycle that has set isGenerating sets it back to false, whether it
\* completes or fails
C6_GeneratingEnds == isGenerating ~> ~isGenerating

\* a chunked cycle has run through its yields and completed
C6_Witness ==
    /\ ~isGenerating
    /\ timers0 = <<>>
    /\ result # None
    /\ Len(result[1].uuids) = 103
    /\ generatorLog.config.count = Num(103)

\* the settled value of the debounce timer differs in count or version from
\* the value debounced before
SettledChanged ==
    \/ debounceTimer[1].count # debouncedConfig.count
    \/ debounceTimer[1].version # debouncedConfig.version

\* C7 as stated: after a burst of count or version updates the timer's fire
\* runs exactly one regeneration with the last value of the burst
C7_FireAlwaysRegenerates ==
    [][(FireStep /\ burst > 0)
          => GeneratorCalled /\ generatorLog'.config = debounceTimer[1]]_vars

\* update steps and timer fires against the generator's log
C7_DebounceStep ==
    /\ UpdateStep
         => /\ generatorLog' = generatorLog
            /\ rngDraws' = rngDraws
            /\ error' = None => debounceTimer' = Some(config')
    /\ FireStep
         => IF SettledChanged /\ ~isGenerating
            THEN /\ GeneratorCalled
                 /\ generatorLog'.config = debounceTimer[1]
                 /\ generatorLog'.config = config
                 /\ (error' = None /\ ~isGenerating')
                      => /\ result' # None
                         /\ Num(Len(result'[1].uuids)) = debounceTimer[1].count
                         /\ \A i \in 1..Len(result'[1].uuids) :
                               result'[1].uuids[i].draw >= rngDraws
            ELSE /\ generatorLog' = generatorLog
                 /\ result' = result

\* C7: every accepted update restarts the timer and no update calls the
\* generator; when the timer fires, one regeneration with the last value
\* starts if that value differs in count or version from the value
\* debounced before and no cycle is generating, and none starts otherwise;
\* a regeneration that completes in that step shows identifiers drawn anew
C7_Debounced == [][C7_DebounceStep]_vars

\* a burst of two count updates was followed by one regeneration with the
\* last value
C7_Witness ==
    /\ updates = 2
    /\ burst = 0
    /\ debounceTimer = None
    /\ debouncedConfig.count = Num(103)
    /\ debouncedConfig.separateWithCommas
    /\ generatorLog.config = debouncedConfig
    /\ generatorLog.calls = 3

RECURSIVE SumSeq(_)
SumSeq(q) == IF q = <<>> THEN 0 ELSE Head(q) + SumSeq(Tail(q))

\* count is an integer in [1,1000]
ValidCount(count) == IsInteger(count) /\ count >= Num(1) /\ count <= Num(1000)

\* the call has a valid count, version v4 and a source of randomness
GenValid ==
    /\ ValidCount(call.config.count)
    /\ call.config.version = "v4"
    /\ isSupported(crypto)

\* the counts of a valid call in every state of it
C8_Chunks ==
    GenValid =>
       /\ call.pc # "rejected"
       /\ call.pc = "resolved" => Num(Len(call.frame.uuids)) = call.config.count
       /\ call.config.count <= Num(100) =>
             /\ call.pc # "pending"
             /\ call.frame.yields = 0
       /\ (call.config.count > Num(100) /\ call.pc # "ready") =>
             /\ \A i \in 1..Len(call.frame.chunks) :
                   call.frame.chunks[i] >= 1 /\ call.frame.chunks[i] <= batchSize
             /\ SumSeq(call.frame.chunks) = Len(call.frame.uuids)
             /\ call.pc = "pending" => call.frame.yields = Len(call.frame.chunks)
             /\ call.pc = "resolved" => call.frame.yields = Len(call.frame.chunks) - 1

\* C8: with a source of randomness, for every integer count in [1,1000]
\* and version v4 the call resolves with exactly count identifiers; above
\* 100 every chunk has between 1 and 50 identifiers, the chunk sizes sum to
\* the identifiers made, there is one yield after every chunk but the last,
\* and the call resolves in the end
C8_GeneratesCount == []C8_Chunks /\ (GenValid ~> call.pc = "resolved")

\* 103 identifiers were made in chunks of 50, 50 and 3 with two yields
C8_Witness ==
    /\ call.pc = "resolved"
    /\ call.config.count = Num(103)
    /\ Len(call.frame.uuids) = 103
    /\ call.frame.chunks = <<50, 50, 3>>
    /\ call.frame.yields = 2

\* C9: a call whose count is outside [1,1000] or is not an integer is
\* rejected with the count error before any identifier is made
C9_InvalidCountRejected ==
    (call.pc # "ready" /\ ~ValidCount(call.config.count))
       => /\ call.pc = "rejected"
          /\ call.error = ErrCount
          /\ call.frame.uuids = <<>>
          /\ rngDraws = 0

\* C10 as stated: a call with a valid count and a version other than v4 is
\* rejected with the version error
C10_VersionErrorAlways ==
    (call.pc # "ready" /\ ValidCount(call.config.count) /\ call.config.version # "v4")
       => /\ call.pc = "rejected"
          /\ call.error = ErrVersion
          /\ call.frame.uuids = <<>>

\* C10: a call with a valid count and a version other than v4 is rejected
\* on both paths and makes no identifier; the error is the version error
\* when a source of randomness exists and the crypto error when none does
C10_VersionRejected ==
    (call.pc # "ready" /\ ValidCount(call.config.count) /\ call.config.version # "v4")
       => /\ call.pc = "rejected"
          /\ call.error = (IF isSupported(crypto) THEN ErrVersion ELSE ErrCrypto)
          /\ call.frame.uuids = <<>>
          /\ rngDraws = 0

\* a v1 call on the chunked path was rejected with the version error
C10_Witness ==
    /\ call.pc = "rejected"
    /\ call.config.version = "v1"
    /\ call.config.count = Num(103)
    /\ call.error = ErrVersion
    /\ isSupported(crypto)

\* C10, in the hook: a cycle whose configuration has a valid count and a
\* version other than v4 ends in the step that starts it, with the
\* generator's error, and the result stays as it was (checked under Spec)
C10_VersionCycleFails ==
    [][(/\ GeneratorCalled
        /\ generatorLog'.config.version # "v4"
        /\ ValidCount(generatorLog'.config.count))
          => /\ error' = Some(IF isSupported(crypto) THEN ErrVersion ELSE ErrCrypto)
             /\ result' = result
             /\ rngDraws' = rngDraws
             /\ ~isGenerating']_vars

\* a v1 cycle on the chunked path has failed in the hook
C10_VersionCycleWitness ==
    /\ generatorLog.config.version = "v1"
    /\ generatorLog.config.count = Num(103)
    /\ error = Some(ErrVersion)
    /\ ~isGenerating

\* the sources of the identifiers a call has made so far
SourcesUsed == {call.frame.uuids[i].source : i \in 1..Len(call.frame.uuids)}

\* C11: generateUUIDs takes every identifier from crypto.randomUUID when it
\* exists, else from crypto.getRandomValues, and rejects without an
\* identifier when neither exists; Math.random is only ever used by the
\* function of getFallbackGenerator, and there only without getRandomValues
C11_StrategyOrder ==
    /\ call.pc \in {"pending", "resolved", "rejected"} =>
          /\ SourcesUsed \subseteq
                (IF crypto.randomUUID THEN {"randomUUID"}
                 ELSE IF crypto.getRandomValues THEN {"getRandomValues"}
                 ELSE {})
          /\ ~isSupported(crypto) =>
                /\ call.pc = "rejected"
                /\ call.error \in {ErrCount, ErrCrypto}
                /\ rngDraws = 0
    /\ call.pc = "fallback" =>
          SourcesUsed \subseteq
             (IF crypto.getRandomValues THEN {"getRandomValues"} ELSE {"Math.random"})

\* without randomUUID a chunked call took all its identifiers from
\* getRandomValues
C11_Witness ==
    /\ call.pc = "resolved"
    /\ ~crypto.randomUUID
    /\ crypto.getRandomValues
    /\ Len(call.frame.uuids) = 103
    /\ SourcesUsed = {"getRandomValues"}

\* the fallback function made identifiers from Math.random
C11_FallbackWitness ==
    /\ call.pc = "fallback"
    /\ ~isSupported(crypto)
    /\ Len(call.frame.uuids) = 5
    /\ SourcesUsed = {"Math.random"}

\* a copy has been made in this step
CopyStep == copied' # copied \/ clipboard' # clipboard

\* C12: copyAll hands exactly result.formattedOutput to the clipboard, and
\* copySingle(identifier) hands formatSingleUUID(identifier, flags) with the
\* flags of the configuration at the moment of the copy; copyAll without a
\* result reports success = false with empty content and hands nothing over
C12_CopyStep ==
    CopyStep =>
        LET c == copied'[1]
        IN  IF c.type = "single"
            THEN /\ clipboard'.handed # None
                 /\ TextOf(clipboard'.handed[1])
                        = formatSingleUUID(UUIDText(c.content.of), FormatOptions(config))
            ELSE IF result = None
            THEN /\ ~c.success
                 /\ TextOf(c.content) = <<>>
                 /\ clipboard'.handed = None
                 /\ clipboard'.written = clipboard.written
            ELSE /\ clipboard'.handed # None
                 /\ TextOf(clipboard'.handed[1]) = FormattedText(result[1].formattedOutput)

C12_CopyHandsFormattedText == [][C12_CopyStep]_vars

\* C13: whenever the hook is idle, holds a result and has no callback
\* pending, result.formattedOutput is formatUUIDs(result.uuids, the format
\* flags of config)
C13_OutputFollowsFlags ==
    (~isGenerating /\ result # None /\ timers0 = <<>>) =>
        result[1].formattedOutput = FormatCall(result[1].uuids, FormatOptions(config))

\* a format flag was changed while a chunked cycle was in flight, and the
\* text of the result it left is that of the new flags
C13_Witness ==
    /\ ~isGenerating
    /\ result # None
    /\ timers0 = <<>>
    /\ Len(result[1].uuids) = 103
    /\ generatorLog.config.count = Num(103)
    /\ config.upperCase
    /\ ~generatorLog.config.upperCase
    /\ FormattedText(result[1].formattedOutput)
           = formatUUIDs(UUIDTexts(result[1].uuids), FormatOptions(config))

Count(q, c) == Len(SelectSeq(q, LAMBDA x : x = c))

\* C14: formatSingleUUID strips the hyphens iff includeHyphens is false,
\* forces upper case iff upperCase and lower case otherwise, wraps the text
\* in double quotes iff includeQuotes and then in braces iff includeBraces,
\* the braces outermost; separateWithCommas has no effect on it
C14_FormatOrder ==
    call.pc = "formatSingleUUID" =>
        LET o == call.options
            out == call.out
            b == IF o.includeBraces THEN 1 ELSE 0
            q == IF o.includeQuotes THEN 1 ELSE 0
            inner == SubSeq(out, 1 + b + q, Len(out) - b - q)
            kept == IF o.includeHyphens THEN call.uuid
                    ELSE SelectSeq(call.uuid, LAMBDA c : c # "-")
        IN  /\ Len(out) = Len(kept) + 2 * b + 2 * q
            /\ o.includeBraces => out[1] = "{" /\ out[Len(out)] = "}"
            /\ o.includeQuotes => out[1 + b] = "\"" /\ out[Len(out) - b] = "\""
            /\ Count(out, "{") = b /\ Count(out, "}") = b /\ Count(out, "\"") = 2 * q
            /\ Count(out, "-") = (IF o.includeHyphens THEN Count(call.uuid, "-") ELSE 0)
            /\ \A i \in 1..Len(inner) :
                   /\ CharToLower(inner[i]) = CharToLower(kept[i])
                   /\ IF o.upperCase
                      THEN \A j \in 1..6 : inner[i] # LowerLetters[j]
                      ELSE \A j \in 1..6 : inner[i] # UpperLetters[j]
            /\ out = formatSingleUUID(call.uuid, [o EXCEPT !.separateWithCommas = ~@])

\* a generated identifier formatted with every flag away from its default
C14_Witness ==
    /\ call.pc = "formatSingleUUID"
    /\ Len(call.uuid) = 36
    /\ ~call.options.includeHyphens
    /\ call.options.upperCase
    /\ call.options.includeQuotes
    /\ call.options.includeBraces
    /\ Len(call.out) = 36
    /\ SubSeq(call.out, 1, 2) = <<"{", "\"">>
    /\ SubSeq(call.out, 35, 36) = <<"\"", "}">>

\* formatUUIDs has returned uuids formatted one by one and joined with sep
\* when separateWithCommas is set and there is more than one, with a newline
\* otherwise; no identifiers give the empty string, one identifier gives no
\* comma, and the second call gives the same output
JoinedWith(sep) ==
    LET images == [i \in 1..Len(call.uuids) |->
                      formatSingleUUID(call.uuids[i], call.options)]
    IN  /\ call.out = (IF call.options.separateWithCommas /\ Len(call.uuids) > 1
                       THEN Join(images, sep)
                       ELSE Join(images, <<"\n">>))
        /\ Len(call.uuids) = 0 => call.out = <<>>
        /\ Len(call.uuids) = 1 => Count(call.out, ",") = 0
        /\ call.again = call.out

\* C15: formatUUIDs joins the formatted identifiers with ", " when
\* separateWithCommas is set and there is more than one identifier, and
\* with a newline otherwise; formatUUIDs([]) is the empty string, one
\* identifier gives no comma, and formatting twice gives the same output
C15_JoinedWithCommaSpace == call.pc = "formatUUIDs" => JoinedWith(<<",", " ">>)

\* C16: with a working localStorage, savePreferences(c) followed by
\* loadPreferences() returns exactly the fields of c that differ from
\* defaultConfig, with the values of c; the stored record holds those
\* fields, the schema version and a timestamp, and nothing else
C16_RoundTrip ==
    (call.pc = "loaded" /\ call.saved /\ call.ls = "works") =>
        LET c == call.config
            changed == {k \in DOMAIN c : c[k] # defaultConfig[k]}
            record == call.stored[1].value.fields
        IN  /\ call.returned
            /\ DOMAIN call.loaded = changed
            /\ \A k \in changed : call.loaded[k] = c[k]
            /\ call.stored[1].kind = "json"
            /\ DOMAIN record = {"version", "config", "lastUsed"}
            /\ record.version = JString(SCHEMA_VERSION)
            /\ record.lastUsed = JString(ISONow)
            /\ DOMAIN record.config.fields = changed

\* the configuration { count: 5, theme: 'dark', upperCase: true } saved
\* over a record that held other fields, and loaded
C16_Witness ==
    /\ call.pc = "loaded"
    /\ call.saved
    /\ call.ls = "works"
    /\ call.config.version = "v4"
    /\ call.loaded = [count |-> Num(5), theme |-> "dark", upperCase |-> TRUE]

\* the fields of the config object of the stored record, if the key holds
\* the JSON text of an object that has one
StoredFields ==
    IF call.stored = None THEN <<>>
    ELSE IF call.stored[1].kind # "json" THEN <<>>
    ELSE IF "config" \in DOMAIN Fields(call.stored[1].value)
    THEN Fields(Fields(call.stored[1].value).config)
    ELSE <<>>

\* the check the stored field k has to pass
FieldPasses(k, json) ==
    \/ /\ k = "count"
       /\ json.type = "number"
       /\ IsInteger(json.value)
       /\ json.value >= Num(1)
       /\ json.value <= Num(1000)
    \/ k = "version" /\ json.type = "string" /\ json.text \in {"v1", "v4"}
    \/ k = "theme" /\ json.type = "string" /\ json.text \in {"light", "dark", "system"}
    \/ k \in BooleanKeys /\ json.type = "boolean"

\* C17: loadPreferences returns exactly the stored fields that pass their
\* check (count an integer in [1, 1000], version and theme in their enums,
\* flags boolean), drops every other field, and returns the empty object
\* for a missing key, a text that does not parse and an unavailable storage
C17_LoadValidatesFields ==
    call.pc = "loaded" =>
        /\ DOMAIN call.loaded =
               (IF isStorageAvailable(call.ls)
                THEN {k \in DOMAIN StoredFields : FieldPasses(k, StoredFields[k])}
                ELSE {})
        /\ \A k \in DOMAIN call.loaded : call.loaded[k] = ValueOf(StoredFields[k])

ClassOf(operation) ==
    IF operation = "uuidGeneration" THEN "UUID Generation"
    ELSE IF operation = "formatting" THEN "UUID Formatting"
    ELSE "Total Operation"

WarningOf(operation) ==
    IF operation = "uuidGeneration" THEN uuidGenerationWarning
    ELSE IF operation = "formatting" THEN formattingWarning
    ELSE totalWarning

ErrorOf(operation) ==
    IF operation = "uuidGeneration" THEN uuidGenerationError
    ELSE IF operation = "formatting" THEN formattingError
    ELSE totalError

\* the alerts the last sample has raised
NewAlerts ==
    SubSeq(monitor.alerts, Len(call.before.alerts) + 1, Len(monitor.alerts))

\* C19: a sample at or above the error threshold of its class raises an
\* error alert at once; a sample at or above the warning threshold and
\* below the error threshold raises a warning alert only when the
\* consecutive-slow counter of its class has reached 3; a sample below the
\* warning threshold resets the counter of its class to 0 and raises
\* nothing; the counters of the other classes are left as they were
C19_AlertRule ==
    (call.pc = "monitor" /\ call.samples > 0) =>
        LET class == ClassOf(call.operation)
            d == call.duration
            old == call.before.consecutiveFailures
            new == monitor.consecutiveFailures
        IN  /\ \A k \in DOMAIN new : k # class => new[k] = old[k]
            /\ IF d >= ErrorOf(call.operation)
               THEN /\ Len(NewAlerts) = 1
                    /\ NewAlerts[1].type = "error"
                    /\ NewAlerts[1].operation = class
                    /\ new[class] = old[class] + 1
               ELSE IF d >= WarningOf(call.operation)
               THEN /\ new[class] = old[class] + 1
                    /\ IF new[class] >= CONSECUTIVE_THRESHOLD
                       THEN /\ Len(NewAlerts) = 1
                            /\ NewAlerts[1].type = "warning"
                            /\ NewAlerts[1].operation = class
                       ELSE NewAlerts = <<>>
               ELSE new[class] = 0 /\ NewAlerts = <<>>

\* the third slow sample in a row of one class raises the warning, with
\* a sample of another class in between
C19_Witness ==
    /\ call.pc = "monitor"
    /\ call.samples = 4
    /\ call.operation = "formatting"
    /\ call.duration = formattingWarning
    /\ monitor.consecutiveFailures["UUID Formatting"] = 3
    /\ monitor.consecutiveFailures["UUID Generation"] = 1
    /\ Len(monitor.alerts) = 1
    /\ monitor.alerts[1].type = "warning"

\* C20: as soon as a sample below the warning threshold is recorded,
\* getHealthStatus reports good, whatever samples came before
C20_FastSampleRecovers ==
    (call.pc = "monitor" /\ call.samples > 0
        /\ call.duration < WarningOf(call.operation)) =>
            getHealthStatus(monitor) = "good"

\* C21: in every reachable state of the hook config.count is an integer
\* with 1 <= count <= 1000, whether the configuration comes from the
\* caller's initialConfig, from the stored preferences or from updateConfig
C21_CountInRange ==
    /\ IsInteger(config.count)
    /\ config.count >= Num(1)
    /\ config.count <= Num(1000)

\* the record savePreferences writes for a configuration
Written(c) == savePreferences("works", None, c, ISONow).stored

\* an accepted update restarts the save timer with the new configuration,
\* and a write is the firing of the pending save timer
C22_SaveStep ==
    /\ (UpdateStep /\ ValidUpdate(lastUpdate')) => saveTimer' = Some(config')
    /\ storage' # storage => saveTimer # None /\ saveTimer' = None
    /\ (saveTimer # None /\ saveTimer' = None) => storage' = Written(saveTimer[1])

\* a pending save holds the configuration, and with no save pending the
\* stored record is that of the configuration
C22_StoredIsLast ==
    /\ saveTimer # None => saveTimer[1] = config
    /\ (mounted /\ saveTimer = None) => storage = Written(config)

\* C22: every configuration change restarts the pending save timer; a
\* burst of changes is followed by exactly one write, of the last
\* configuration of the burst; and every settled configuration change is
\* eventually written, whether or not a generation cycle is pending or in
\* flight
C22_SaveDebounced ==
    /\ [][C22_SaveStep]_vars
    /\ []C22_StoredIsLast
    /\ (saveTimer # None ~> saveTimer = None)

\* two updates in one burst have been written while the chunked cycle they
\* started is in flight
C22_Witness ==
    /\ updates = 2
    /\ config.count = Num(103)
    /\ config.upperCase
    /\ saveTimer = None
    /\ storage = Written(config)
    /\ isGenerating
    /\ InFlight # {}

\* C23: after the unmount no timer callback fires: no generation cycle
\* starts, no preference is written and no state of the hook changes
C23_QuietAfterUnmount ==
    [][unmounted =>
          /\ timers0' = timers0
          /\ generatorLog' = generatorLog
          /\ rngDraws' = rngDraws
          /\ storage' = storage
          /\ <<config, result, isGenerating, error, debouncedConfig>>'
                 = <<config, result, isGenerating, error, debouncedConfig>>]_vars

\* C24: while the configuration is the one the hook was mounted with and
\* neither updateConfig nor regenerate has been called, the generator has
\* been invoked at most once, however much time has passed
C24_OneInitialCycle ==
    (updates = 0 /\ regens = 0 /\ config = FirstConfig) => generatorLog.calls <= 1

\* C25: a cycle whose batch generation fails calls the generator once more
\* with count 1 before it sets an error; if that call succeeds the cycle
\* completes with its identifier and sets no error
C25_FallbackStep ==
    generatorLog'.calls > generatorLog.calls =>
        LET single == [generatorLog'.config EXCEPT !.count = Num(1)]
        IN  /\ error' \in GeneratorErrors =>
                /\ generatorLog'.calls = generatorLog.calls + 2
                /\ generatorLog'.config.count = Num(1)
                /\ generateUUIDs(single, crypto, rngDraws).status = "rejected"
            /\ generatorLog'.calls = generatorLog.calls + 2 =>
                (generateUUIDs(single, crypto, rngDraws).status = "resolved" =>
                    /\ error' = None
                    /\ result' # None
                    /\ Len(result'[1].uuids) = 1)

C25_FallbackBeforeError == [][C25_FallbackStep]_vars

\* the value of a hexadecimal digit in lower case
HexValue(c) == (CHOOSE i \in 1..16 : HexChars[i] = c) - 1

HyphenOffsets == {8, 13, 18, 23}

\* the text without its hyphens
HexOf(text) == SelectSeq(text, LAMBDA c : c # "-")

\* C26: in every identifier built from random bytes, byte 6 is
\* (b & 0x0f) | 0x40 and byte 8 is (b & 0x3f) | 0x80, every other byte is
\* unchanged, and the text is 36 lower-case characters with hyphens at
\* offsets 8, 13, 18 and 23, version character 4 and variant character 8, 9,
\* a or b; identifier i of a batch is built from bytes 16 i to 16 i + 15
C26_VersionAndVariant ==
    call.pc \in {"single", "batch"} =>
        /\ Len(call.uuids) = (IF call.pc = "single" THEN 1 ELSE Len(call.allBytes) \div 16)
        /\ \A i \in 1..Len(call.uuids) :
            LET random == [j \in 1..16 |-> call.allBytes[16 * (i - 1) + j]]
                bytes == call.bytes[i]
                text == call.uuids[i]
            IN  /\ Len(bytes) = 16
                /\ bytes[7] \in 64..79 /\ bytes[7] % 16 = random[7] % 16
                /\ bytes[9] \in 128..191 /\ bytes[9] % 64 = random[9] % 64
                /\ \A j \in (1..16) \ {7, 9} : bytes[j] = random[j]
                /\ Len(text) = 36
                /\ \A p \in 1..36 :
                       IF (p - 1) \in HyphenOffsets THEN text[p] = "-"
                       ELSE \E h \in 1..16 : HexChars[h] = text[p]
                /\ text[15] = "4"
                /\ text[20] \in {"8", "9", "a", "b"}
                /\ \A j \in 1..16 :
                       16 * HexValue(HexOf(text)[2 * j - 1]) + HexValue(HexOf(text)[2 * j])
                           = bytes[j]

\* a batch whose first identifier had all bits of bytes 6 and 8 set and
\* whose second had none
C26_Witness ==
    /\ call.pc = "batch"
    /\ call.allBytes[7] = 255
    /\ call.allBytes[9] = 255
    /\ call.allBytes[23] = 0
    /\ call.allBytes[25] = 0
    /\ SubSeq(call.uuids[1], 15, 20) = <<"4", "f", "5", "a", "-", "b">>
    /\ SubSeq(call.uuids[2], 15, 20) = <<"4", "0", "a", "5", "-", "8">>

\* the history holds at most 100 samples and at most 20 alerts
HistoryBounded ==
    /\ Len(monitor.completedMetrics) <= MaxMetrics
    /\ Len(monitor.alerts) <= MaxAlerts

\* new holds the entries of old and one more at the end, without the oldest
\* when that would pass the limit
Pushed(old, new, limit) ==
    /\ Len(new) = (IF Len(old) < limit THEN Len(old) + 1 ELSE limit)
    /\ \A i \in 1..(Len(new) - 1) : new[i] = old[Len(old) + 1 - Len(new) + i]

C27_HistoryStep ==
    monitor' # monitor =>
        LET old == monitor
            new == monitor'
            n == Len(new.completedMetrics)
        IN  /\ Pushed(old.completedMetrics, new.completedMetrics, MaxMetrics)
            /\ new.completedMetrics[n].operation = call'.operation
            /\ new.completedMetrics[n].duration = call'.duration
            /\ \/ new.alerts = old.alerts
               \/ /\ Pushed(old.alerts, new.alerts, MaxAlerts)
                  /\ new.alerts[Len(new.alerts)].currentValue = call'.duration

\* C27: after any sequence of timed operations the monitor holds at most 100
\* samples and at most 20 alerts, and a sample or alert past the limit
\* displaces the oldest one, so that the most recent ones are kept
C27_BoundedHistory == []HistoryBounded /\ [][C27_HistoryStep]_vars

\* a full history has taken one more critical sample: the oldest sample and
\* the oldest alert are gone, the new ones are last
C27_Witness ==
    /\ Len(call.before.completedMetrics) = MaxMetrics
    /\ Len(call.before.alerts) = MaxAlerts
    /\ Len(monitor.completedMetrics) = MaxMetrics
    /\ Len(monitor.alerts) = MaxAlerts
    /\ monitor.completedMetrics[1] = call.before.completedMetrics[2]
    /\ monitor.alerts[1] = call.before.alerts[2]
    /\ monitor.alerts[MaxAlerts].currentValue = call.duration
    /\ monitor.completedMetrics[MaxMetrics].duration = call.duration
    /\ call.before.completedMetrics[1] # call.before.completedMetrics[2]

\* nothing is pending: no timer is set, no cycle is in flight, and no
\* cycle has failed
Settled ==
    /\ mounted
    /\ timers0 = <<>>
    /\ debounceTimer = None
    /\ saveTimer = None
    /\ ~isGenerating
    /\ error = None
    /\ result # None

\* C28: once the configuration changes have stopped and every started cycle
\* has completed successfully, result.uuids has exactly config.count
\* elements, also when the debounced trigger of the count change arrived
\* while another cycle was in flight; the cycles are those the hook starts
\* itself
C28_SettledResultHasCount ==
    (Settled /\ regens = 0
        /\ crypto = AllCrypto /\ config.version = "v4" /\ ValidCount(config.count)) =>
        Len(result[1].uuids) = LoopCount(config.count)

\* one step of a breaker, as the claim describes it
C29_BreakerStep ==
    (call.pc = "breaker" /\ call' # call) =>
        LET b == call.breaker
            b1 == call'.breaker
            ev == call'.event
            elapsed == call.now - b.lastFailureTime >= b.recoveryTimeout
        IN  \* opens at the threshold, and only a failure opens it
            /\ (b.state # "open" /\ b1.state = "open") =>
                   ev = "failure" /\ b1.failureCount >= b.failureThreshold
            /\ (ev = "failure" /\ b.failureCount + 1 >= b.failureThreshold) =>
                   b1.state = "open"
            \* open and not yet timed out: fn is not invoked
            /\ (ev \in {"refused", "invoked"} /\ b.state = "open" /\ ~elapsed) =>
                   /\ ev = "refused"
                   /\ call'.invocations = call.invocations
                   /\ call'.returned[1].success = FALSE
                   /\ call'.returned[1].attempts = 0
                   /\ b1 = b
            \* open and timed out: let through, half-open
            /\ (ev \in {"refused", "invoked"} /\ b.state = "open" /\ elapsed) =>
                   /\ ev = "invoked"
                   /\ call'.invocations = call.invocations + 1
                   /\ b1.state = "half-open"
            \* half-open: a success closes, a failure re-opens
            /\ (ev = "success" /\ b.state = "half-open") =>
                   /\ b1.state = "closed"
                   /\ b1.failureCount = 0
                   /\ call'.returned[1].success
                   /\ call'.returned[1].recoveryStrategy = "circuit-breaker-recovery"
            /\ (ev = "failure" /\ b.state = "half-open") => b1.state = "open"

\* C29: the breaker opens once failureThreshold failures have occurred
\* without a success between them; while it is open and the recovery timeout
\* has not elapsed, execute does not invoke fn and returns a failure with
\* attempts 0; after the timeout a call is let through in half-open state,
\* where a success closes the breaker, resets the failure count and is
\* reported as 'circuit-breaker-recovery', and a failure re-opens it
C29_BreakerProtocol == [][C29_BreakerStep]_vars

\* what holds of a call of retryWithBackoff in every state
C30_RetryState ==
    call.pc = "retry" =>
        LET o == call.options
            r == call.returned
        IN  /\ call.invocations <= o.maxRetries + 1
            /\ call.attempts = call.invocations
            /\ call.failures \in {call.invocations - 1, call.invocations}
            /\ call.invocations = 0 => call.failures = 0
            \* a delay after every failed attempt but the last
            /\ Len(call.waits) = Min(call.failures, IF o.maxRetries < 0 THEN 0 ELSE o.maxRetries)
            /\ \A k \in 1..Len(call.waits) :
                   /\ call.waits[k] <= o.maxDelay
                   /\ call.waits[k] <= o.initialDelay * Pow(o.backoffMultiplier, k - 1)
                   /\ call.waits[k] \in {o.maxDelay, o.initialDelay * Pow(o.backoffMultiplier, k - 1)}
            /\ r # None =>
                   /\ call.waiting = "returned"
                   /\ r[1].attempts = call.invocations
                   /\ r[1].success => call.failures = call.invocations - 1
                   /\ ~r[1].success =>
                          /\ call.invocations = o.maxRetries + 1
                          /\ call.failures = call.invocations
                          /\ r[1].error = call.invocations

\* fn is invoked only while no attempt has succeeded, and nothing happens
\* after the return
C30_RetryStep ==
    (call.pc = "retry" /\ call' # call) =>
        /\ call.returned = None
        /\ call'.invocations > call.invocations =>
               call.failures = call.invocations
        /\ call'.invocations <= call.invocations + 1

\* C30: retryWithBackoff terminates; it invokes fn at most maxRetries + 1
\* times and not again after a success, reports as attempts the number of
\* invocations, waits min(initialDelay * backoffMultiplier^i, maxDelay)
\* after failed attempt i but not after the last attempt, and returns
\* success = false, with the last error, only if all maxRetries + 1
\* invocations failed
C30_RetryTerminates ==
    /\ []C30_RetryState
    /\ [][C30_RetryStep]_vars
    /\ <>(call.returned # None)

\* a success at the third attempt, after a delay and a delay cut to maxDelay
C30_Witness ==
    /\ call.pc = "retry"
    /\ call.returned # None
    /\ call.returned[1].success
    /\ call.returned[1].attempts = 3
    /\ call.invocations = 3
    /\ call.waits = <<3000, 5000>>
    /\ call.options.backoffMultiplier = 2

\* all attempts have failed: the failure names the last error and no delay
\* followed the last attempt
C30_FailureWitness ==
    /\ call.pc = "retry"
    /\ call.returned # None
    /\ ~call.returned[1].success
    /\ call.returned[1].attempts = 3
    /\ call.returned[1].error = 3
    /\ call.waits = <<50, 50>>
    /\ call.options.maxRetries = 2

====
